---- MODULE Spec2Model ----
(***************************************************************************)
(* A model of check-type: the conformance checker (check-type.ts), the     *)
(* schema model (type-definitions.ts), the helpers it uses (language.ts,   *)
(* validators.ts) and the entry points emitted by generate-schema.ts.      *)
(*                                                                         *)
(* Conventions.                                                            *)
(*  - A JavaScript string is a sequence of chunks.  A chunk is a TLA+      *)
(*    string; the string denoted is the concatenation of the chunks.       *)
(*    Every whitespace character, newline, digit, quote and punctuation    *)
(*    character of a string VALUE is a chunk of its own, and a run of      *)
(*    letters is one chunk, so that two value strings are equal exactly    *)
(*    when their chunk sequences are equal.                                *)
(*  - A runtime value is a record tagged by t; a type node is a record     *)
(*    tagged by kind, as in the source.  An optional attribute that is     *)
(*    undefined is a field that is absent from the record.                 *)
(*  - A call either returns or throws; Ret, Fail and Throw are the three   *)
(*    completions.  Fail is a thrown TypecheckingError.                    *)
(***************************************************************************)
EXTENDS Integers, Sequences, FiniteSets, TLC

(***************************************************************************)
(* Bounds of the model.                                                    *)
(***************************************************************************)
\* the deepest call stack the model follows before the engine's
\* "Maximum call stack size exceeded" RangeError
MaxStack == 12
\* the largest number of properties of a generated object value
MaxProps == 2
\* the largest length of a generated array value
MaxLen == 2

(***************************************************************************)
(* Completions.                                                            *)
(***************************************************************************)
Ret(v) == [st |-> "return", val |-> v]
Fail(m) == [st |-> "TypecheckingError", msg |-> m]
Throw(e, m) == [st |-> e, msg |-> m]
Done == [st |-> "return"]

IsRet(r) == r.st = "return"
IsFail(r) == r.st = "TypecheckingError"
IsThrow(r) == r.st \notin {"return", "TypecheckingError"}

(***************************************************************************)
(* Strings.                                                                *)
(***************************************************************************)
NL == "\n"
\* the grave accent, a character a TLA+ string literal cannot hold
Grave == "<grave>"
Whitespace == {" ", "\n", "\t"}
Digits == {"0", "1", "2", "3", "4", "5", "6", "7", "8", "9"}

RECURSIVE StrLen(_)
StrLen(s) ==
  IF s = <<>> THEN 0
  ELSE IF Len(s) = 1 THEN Len(s[1])
  ELSE StrLen(SubSeq(s, 1, Len(s) \div 2))
         + StrLen(SubSeq(s, Len(s) \div 2 + 1, Len(s)))

RECURSIVE Join(_, _)
Join(ss, sep) ==
  IF ss = <<>> THEN <<>>
  ELSE IF Len(ss) = 1 THEN ss[1]
  ELSE ss[1] \o sep \o Join(Tail(ss), sep)

RECURSIVE Split(_)
Split(s) ==
  IF \A i \in 1..Len(s) : s[i] # NL THEN <<s>>
  ELSE LET i == CHOOSE j \in 1..Len(s) :
                  s[j] = NL /\ \A k \in 1..(j - 1) : s[k] # NL
       IN <<SubSeq(s, 1, i - 1)>> \o Split(SubSeq(s, i + 1, Len(s)))

Includes(s, chunk) == \E i \in 1..Len(s) : s[i] = chunk

SeqIncludes(xs, x) == \E i \in 1..Len(xs) : xs[i] = x

RECURSIVE TrimStart(_)
TrimStart(s) ==
  IF s # <<>> /\ Head(s) \in Whitespace THEN TrimStart(Tail(s)) ELSE s

RECURSIVE TrimEnd(_)
TrimEnd(s) ==
  IF s # <<>> /\ s[Len(s)] \in Whitespace
    THEN TrimEnd(SubSeq(s, 1, Len(s) - 1)) ELSE s

Trim(s) == TrimEnd(TrimStart(s))

EndsWith(s, suffix) ==
  /\ Len(s) >= Len(suffix)
  /\ SubSeq(s, Len(s) - Len(suffix) + 1, Len(s)) = suffix

Quote(s) == <<"'">> \o s \o <<"'">>

RECURSIVE MapQuote(_)
MapQuote(ss) ==
  IF ss = <<>> THEN <<>> ELSE <<Quote(Head(ss))>> \o MapQuote(Tail(ss))

(***************************************************************************)
(* Runtime values.                                                         *)
(***************************************************************************)
Undefined == [t |-> "undefined"]
Null == [t |-> "null"]
Bool(b) == [t |-> "boolean", b |-> b]
Num(n) == [t |-> "number", n |-> n]
StrV(s) == [t |-> "string", s |-> s]
Arr(es) == [t |-> "array", elems |-> es]
Obj(ps) == [t |-> "object", props |-> ps]
P(k, v) == [k |-> <<k>>, v |-> v]

typeof(value) ==
  IF value.t \in {"null", "array", "object"} THEN "object" ELSE value.t

NumberToString(n) == <<ToString(n)>>

\* property in value, for a value that is an object and not null
In(value, property) ==
  CASE value.t = "object" ->
         \E i \in 1..Len(value.props) : value.props[i].k = property
    [] value.t = "array" ->
         \/ property = <<"length">>
         \/ \E i \in 1..Len(value.elems) : property = NumberToString(i - 1)
    [] OTHER -> FALSE

\* value[property]
Get(value, property) ==
  CASE value.t = "object" /\ In(value, property) ->
         value.props[CHOOSE i \in 1..Len(value.props) :
                        value.props[i].k = property].v
    [] value.t = "array" /\ property = <<"length">> -> Num(Len(value.elems))
    [] value.t = "array" /\ In(value, property) ->
         value.elems[CHOOSE i \in 1..Len(value.elems) :
                        property = NumberToString(i - 1)]
    [] OTHER -> Undefined

RECURSIVE KeysOfProps(_)
KeysOfProps(ps) ==
  IF ps = <<>> THEN <<>> ELSE <<Head(ps).k>> \o KeysOfProps(Tail(ps))

RECURSIVE IndexKeys(_, _)
IndexKeys(i, n) ==
  IF i >= n THEN <<>> ELSE <<NumberToString(i)>> \o IndexKeys(i + 1, n)

\* Object.keys(value)
ObjectKeys(value) ==
  CASE value.t = "object" -> Ret(KeysOfProps(value.props))
    [] value.t = "array" -> Ret(IndexKeys(0, Len(value.elems)))
    [] value.t \in {"null", "undefined"} ->
         Throw("TypeError", <<"Cannot convert undefined or null to object">>)
    [] OTHER -> Ret(<<>>)


(***************************************************************************)
(* JSON.stringify(value) and objectToJson(value).                          *)
(***************************************************************************)
EscapeChunk(c) ==
  CASE c = "\n" -> "\\n"
    [] c = "\t" -> "\\t"
    [] c = "\"" -> "\\\""
    [] c = "\\" -> "\\\\"
    [] OTHER -> c

RECURSIVE Escape(_)
Escape(s) == IF s = <<>> THEN <<>> ELSE <<EscapeChunk(Head(s))>> \o Escape(Tail(s))

JsonString(s) == <<"\"">> \o Escape(s) \o <<"\"">>

RECURSIVE Spaces(_)
Spaces(n) == IF n <= 0 THEN <<>> ELSE <<" ">> \o Spaces(n - 1)

\* the properties JSON.stringify writes: those whose value is not undefined
RECURSIVE Defined(_)
Defined(ps) ==
  IF ps = <<>> THEN <<>>
  ELSE (IF Head(ps).v.t = "undefined" THEN <<>> ELSE <<Head(ps)>>)
         \o Defined(Tail(ps))

\* JSON.stringify(value, null, gap): gap = 0 is the compact form; level is
\* the nesting depth of the value being written
RECURSIVE Stringify(_, _, _)
RECURSIVE StringifyElems(_, _, _)
RECURSIVE StringifyProps(_, _, _)

StringifyElems(es, gap, level) ==
  IF es = <<>> THEN <<>>
  ELSE LET e == Head(es)
           text == IF e.t = "undefined" THEN <<"null">>
                   ELSE Stringify(e, gap, level)
           sep == IF Len(es) = 1 THEN <<>>
                  ELSE IF gap = 0 THEN <<",">>
                  ELSE <<",", NL>> \o Spaces(gap * level)
       IN text \o sep \o StringifyElems(Tail(es), gap, level)

StringifyProps(ps, gap, level) ==
  IF ps = <<>> THEN <<>>
  ELSE LET p == Head(ps)
           colon == IF gap = 0 THEN <<":">> ELSE <<":", " ">>
           sep == IF Len(ps) = 1 THEN <<>>
                  ELSE IF gap = 0 THEN <<",">>
                  ELSE <<",", NL>> \o Spaces(gap * level)
       IN JsonString(p.k) \o colon \o Stringify(p.v, gap, level) \o sep
            \o StringifyProps(Tail(ps), gap, level)

Stringify(value, gap, level) ==
  CASE value.t = "null" -> <<"null">>
    [] value.t = "boolean" -> IF value.b THEN <<"true">> ELSE <<"false">>
    [] value.t = "number" -> NumberToString(value.n)
    [] value.t = "string" -> JsonString(value.s)
    [] value.t = "array" ->
         IF value.elems = <<>> THEN <<"[", "]">>
         ELSE IF gap = 0
           THEN <<"[">> \o StringifyElems(value.elems, gap, level + 1) \o <<"]">>
         ELSE <<"[", NL>> \o Spaces(gap * (level + 1))
                \o StringifyElems(value.elems, gap, level + 1)
                \o <<NL>> \o Spaces(gap * level) \o <<"]">>
    [] value.t = "object" ->
         LET ps == Defined(value.props) IN
         IF ps = <<>> THEN <<"{", "}">>
         ELSE IF gap = 0
           THEN <<"{">> \o StringifyProps(ps, gap, level + 1) \o <<"}">>
         ELSE <<"{", NL>> \o Spaces(gap * (level + 1))
                \o StringifyProps(ps, gap, level + 1)
                \o <<NL>> \o Spaces(gap * level) \o <<"}">>
    [] OTHER -> <<"undefined">>

JSONstringify(value) == Stringify(value, 0, 0)

objectToJson(value) ==
  IF value.t = "undefined" THEN <<"undefined">> ELSE Stringify(value, 2, 0)

\* String(value), for a value that is neither an object nor a string
String(value) ==
  CASE value.t = "undefined" -> <<"undefined">>
    [] value.t = "boolean" -> IF value.b THEN <<"true">> ELSE <<"false">>
    [] value.t = "number" -> NumberToString(value.n)
    [] OTHER -> <<>>

\* exceptionToString(error), for a thrown Error: its message, then its stack;
\* the stack is the engine's text and stays one opaque chunk
exceptionToString(error) == error.msg \o <<NL, "<stack>">>

\* a hasProperty that takes a property holding undefined for present
hasPropertyIn(value, property) ==
  /\ typeof(value) = "object"
  /\ value.t # "null"
  /\ In(value, property)

\* hasProperty(value, property)
hasProperty(value, property) ==
  /\ typeof(value) = "object"
  /\ value.t # "null"
  /\ In(value, property)
  /\ Get(value, property).t # "undefined"

(***************************************************************************)
(* Type nodes and the schema (type-definitions.ts).                        *)
(***************************************************************************)
Has(r, f) == f \in DOMAIN r
With(r, f, v) == (f :> v) @@ r

TString == [kind |-> "string"]
TSpecial(n) == [kind |-> "string", specialName |-> <<n>>]
TNumber == [kind |-> "number"]
TBoolean == [kind |-> "boolean"]
TNull == [kind |-> "null"]
TUndefined == [kind |-> "undefined"]
TUnknown == [kind |-> "unknown"]
TLit(s) == [kind |-> "string-literal", value |-> <<s>>]
TNumLit(n) == [kind |-> "number-literal", value |-> n]
TBoolLit(b) == [kind |-> "boolean-literal", value |-> b]
TArray(e) == [kind |-> "array", elementType |-> e]
TPartial(e) == [kind |-> "partial", elementType |-> e]
TRef(n) == [kind |-> "reference-type", referencedTypeName |-> <<n>>]
TInterface(fs, hs) == [kind |-> "interface", fields |-> fs, heritage |-> hs]
TUnion(ms) == [kind |-> "union", unionMembers |-> ms]
TIntersection(ms) == [kind |-> "intersection", intersectionMembers |-> ms]
TMapped(from, opt, to) == [kind |-> "mapped", mapFrom |-> from, optional |-> opt, mapTo |-> to]
TIndexSignature(k, v) == [kind |-> "index-signature", keyType |-> k, valueType |-> v]
TOmit(b, fs) == [kind |-> "omit", base |-> b, omittedFields |-> fs]
TKeyof(b) == [kind |-> "keyof", base |-> b]
Field(n, opt, type) == [name |-> <<n>>, optional |-> opt, type |-> type]

\* name in schema.types
InTypes(schema, name) ==
  \E i \in 1..Len(schema.types) : schema.types[i].k = name

\* schema.types[name]
TypesGet(schema, name) ==
  schema.types[CHOOSE i \in 1..Len(schema.types) : schema.types[i].k = name].v

\* a resolveType that stops at the first schema entry, reference or not
resolveTypeOneStep(schema, type, depth) ==
  IF type.kind # "reference-type" THEN Ret(type)
  ELSE IF InTypes(schema, type.referencedTypeName)
    THEN Ret(With(TypesGet(schema, type.referencedTypeName), "name",
                  type.referencedTypeName))
  ELSE Throw("Error", <<"Type '">> \o type.referencedTypeName
                        \o <<"' was used, but not defined.">>)

RECURSIVE resolveTypeFrom(_, _, _)
resolveTypeFrom(schema, type, depth) ==
  IF depth > MaxStack THEN Throw("RangeError", <<"Maximum call stack size exceeded">>)
  ELSE IF type.kind # "reference-type" THEN Ret(type)
  ELSE IF InTypes(schema, type.referencedTypeName)
    THEN LET candidate == TypesGet(schema, type.referencedTypeName) IN
         IF candidate.kind = "reference-type"
           THEN resolveTypeFrom(schema, candidate, depth + 1)
           ELSE Ret(With(candidate, "name", type.referencedTypeName))
  ELSE Throw("Error", <<"Type '">> \o type.referencedTypeName
                        \o <<"' was used, but not defined.">>)

resolveType(schema, type) == resolveTypeFrom(schema, type, 0)

RECURSIVE EnumValues(_)
EnumValues(members) ==
  IF members = <<>> THEN <<>>
  ELSE <<Head(members).value>> \o EnumValues(Tail(members))

\* isEnum(t): the enum values, or undefined (defined = FALSE)
isEnum(t) ==
  IF t.kind = "string-literal" THEN [defined |-> TRUE, values |-> <<t.value>>]
  ELSE IF t.kind # "union" THEN [defined |-> FALSE]
  ELSE IF \A i \in 1..Len(t.unionMembers) :
             t.unionMembers[i].kind = "string-literal"
    THEN [defined |-> TRUE, values |-> EnumValues(t.unionMembers)]
  ELSE [defined |-> FALSE]

RECURSIVE indent(_)
indent(s) ==
  IF s = <<>> THEN <<>>
  ELSE IF Len(s) = 1 THEN (IF s[1] = NL THEN <<NL, "  ">> ELSE s)
  ELSE indent(SubSeq(s, 1, Len(s) \div 2))
         \o indent(SubSeq(s, Len(s) \div 2 + 1, Len(s)))

RECURSIVE typeToString(_, _)
RECURSIVE FieldsToStrings(_, _)
RECURSIVE TypesToStrings(_, _, _)

FieldsToStrings(fs, short) ==
  IF fs = <<>> THEN <<>>
  ELSE <<Head(fs).name \o <<": ">> \o indent(typeToString(Head(fs).type, short))>>
         \o FieldsToStrings(Tail(fs), short)

TypesToStrings(ts, short, indented) ==
  IF ts = <<>> THEN <<>>
  ELSE <<IF indented THEN indent(typeToString(Head(ts), short))
         ELSE typeToString(Head(ts), short)>>
         \o TypesToStrings(Tail(ts), short, indented)

typeToString(type, short) ==
  IF Has(type, "name") THEN type.name
  ELSE CASE type.kind = "string" ->
              IF Has(type, "specialName") THEN type.specialName ELSE <<type.kind>>
         [] type.kind \in {"number", "boolean", "null", "unknown", "undefined"} ->
              <<type.kind>>
         [] type.kind = "boolean-literal" ->
              IF type.value THEN <<"true">> ELSE <<"false">>
         [] type.kind = "number-literal" -> NumberToString(type.value)
         [] type.kind = "reference-type" -> type.referencedTypeName
         [] type.kind = "index-signature" ->
              <<"{ [key: ">> \o typeToString(type.keyType, short) \o <<"]: ">>
                \o typeToString(type.valueType, short) \o <<" }">>
         [] type.kind = "interface" ->
              <<"{">> \o (IF short THEN <<" ">> ELSE <<NL, "  ">>)
                \o Join(FieldsToStrings(type.fields, short),
                        IF short THEN <<"; ">> ELSE <<NL, "  ">>)
                \o (IF short THEN <<" ">> ELSE <<NL>>) \o <<"}">>
                \o (IF Len(type.heritage) > 0
                      THEN <<" extends ">>
                             \o Join(TypesToStrings(type.heritage, short, FALSE), <<", ">>)
                      ELSE <<>>)
         [] type.kind = "union" ->
              LET members == TypesToStrings(type.unionMembers, short, TRUE) IN
              IF short \/ \A i \in 1..Len(members) : ~Includes(members[i], NL)
                THEN Join(members, <<" | ">>)
                ELSE Join(members, <<" | ", NL>>)
         [] type.kind = "intersection" ->
              Join(TypesToStrings(type.intersectionMembers, short, FALSE), <<" & ">>)
         [] type.kind = "array" ->
              <<"Array<">> \o typeToString(type.elementType, short) \o <<">">>
         [] type.kind = "partial" ->
              <<"Partial<">> \o typeToString(type.elementType, short) \o <<">">>
         [] type.kind = "string-literal" -> Quote(type.value)
         [] type.kind = "keyof" -> <<"keyof ">> \o typeToString(type.base, short)
         [] type.kind = "omit" ->
              <<"Omit<">> \o typeToString(type.base, short) \o <<", ">>
                \o Join(MapQuote(type.omittedFields), <<" | ">>) \o <<">">>
         [] type.kind = "mapped" ->
              <<"{ [Symbol in ", "[object Object]", "]: ", "[object Object]", "}">>

(***************************************************************************)
(* Short forms used in diagnostics (check-type.ts).                        *)
(***************************************************************************)
ShortValueLimit == 40
ShortTypeLimit == 40
AlternativeSlack == 10

None == [defined |-> FALSE]
Some(s) == [defined |-> TRUE, s |-> s]

\* a valueToShortString that never prints the value
valueToShortStringBare(value, valueString) == valueString

valueToShortString(value, valueString) ==
  LET result == IF typeof(value) = "object" THEN JSONstringify(value)
                ELSE IF typeof(value) = "string" THEN Quote(value.s)
                ELSE String(value)
  IN IF StrLen(result) < ShortValueLimit
       THEN valueString \o <<" (aka. ", Grave>> \o result \o <<Grave, ")">>
       ELSE valueString

typeToShortString(type, alternative) ==
  IF Has(type, "name") THEN type.name
  ELSE LET str == typeToString(type, TRUE) IN
       IF \/ ~alternative.defined
          \/ StrLen(str) < StrLen(alternative.s) + AlternativeSlack
          \/ StrLen(str) < ShortTypeLimit
         THEN str
         ELSE alternative.s

ith(i) ==
  NumberToString(i)
    \o <<IF i = 1 THEN "st" ELSE IF i = 2 THEN "nd" ELSE IF i = 3 THEN "rd" ELSE "th">>

(***************************************************************************)
(* computePropertiesOfType (check-type.ts).  depth counts the frames of    *)
(* the recursion: the engine throws a RangeError when its stack is full.   *)
(***************************************************************************)
RECURSIVE AppendNew(_, _)
AppendNew(result, candidates) ==
  IF candidates = <<>> THEN result
  ELSE AppendNew(IF SeqIncludes(result, Head(candidates)) THEN result
                 ELSE Append(result, Head(candidates)),
                 Tail(candidates))

RECURSIVE FieldNames(_)
FieldNames(fs) ==
  IF fs = <<>> THEN <<>> ELSE <<Head(fs).name>> \o FieldNames(Tail(fs))

RECURSIVE Without(_, _)
Without(xs, omitted) ==
  IF xs = <<>> THEN <<>>
  ELSE (IF SeqIncludes(omitted, Head(xs)) THEN <<>> ELSE <<Head(xs)>>)
         \o Without(Tail(xs), omitted)

CannotCompute(why) == Throw("Error", <<"Cannot compute fields of ">> \o why)

RECURSIVE propertiesOfMapFromUnion(_, _, _, _)
propertiesOfMapFromUnion(schema, type, members, result) ==
  IF members = <<>> THEN Ret(result)
  ELSE LET member == resolveType(schema, Head(members)) IN
       IF ~IsRet(member) THEN member
       ELSE IF member.val.kind = "string-literal"
         THEN propertiesOfMapFromUnion(schema, type, Tail(members),
                                       Append(result, member.val.value))
       ELSE CannotCompute(typeToString(type, FALSE)
                            \o <<", because from is a union with a member that is ",
                                 member.val.kind>>)

propertiesOfMapped(schema, type) ==
  LET from == resolveType(schema, type.mapFrom) IN
  IF ~IsRet(from) THEN from
  ELSE CASE from.val.kind = "string-literal" -> Ret(<<from.val.value>>)
         [] from.val.kind = "union" ->
              propertiesOfMapFromUnion(schema, type, from.val.unionMembers, <<>>)
         [] OTHER ->
              CannotCompute(typeToString(type, FALSE)
                              \o <<", because from is ", from.val.kind>>)

RECURSIVE computePropertiesFrom(_, _, _)
RECURSIVE propertiesOfMembers(_, _, _, _)

propertiesOfMembers(schema, members, result, depth) ==
  IF members = <<>> THEN Ret(result)
  ELSE LET candidates == computePropertiesFrom(schema, Head(members), depth + 1) IN
       IF ~IsRet(candidates) THEN candidates
       ELSE propertiesOfMembers(schema, Tail(members),
                                AppendNew(result, candidates.val), depth)

propertiesOfOmit(schema, type, depth) ==
  LET resolved == resolveType(schema, type) IN
  IF ~IsRet(resolved) THEN resolved
  ELSE LET all == computePropertiesFrom(schema, resolved.val, depth + 1) IN
       IF ~IsRet(all) THEN all ELSE Ret(Without(all.val, type.omittedFields))

propertiesOfReference(schema, type, depth) ==
  LET resolved == resolveType(schema, type) IN
  IF ~IsRet(resolved) THEN resolved
  ELSE computePropertiesFrom(schema, resolved.val, depth + 1)

propertiesOfInterface(schema, type, depth) ==
  propertiesOfMembers(schema, type.heritage, FieldNames(type.fields), depth)

computePropertiesFrom(schema, type, depth) ==
  IF depth > MaxStack
    THEN Throw("RangeError", <<"Maximum call stack size exceeded">>)
  ELSE CASE type.kind \in {"string", "number", "boolean", "undefined", "null",
                           "unknown", "string-literal", "boolean-literal",
                           "number-literal", "keyof"} -> Ret(<<>>)
         [] type.kind = "index-signature" ->
              CannotCompute(typeToString(type, FALSE)
                              \o <<", because it is an index signature.">>)
         [] type.kind = "mapped" -> propertiesOfMapped(schema, type)
         [] type.kind = "array" -> Ret(<<<<"length">>>>)
         [] type.kind = "reference-type" -> propertiesOfReference(schema, type, depth)
         [] type.kind = "omit" -> propertiesOfOmit(schema, type, depth)
         [] type.kind = "interface" -> propertiesOfInterface(schema, type, depth)
         [] type.kind = "union" ->
              propertiesOfMembers(schema, type.unionMembers, <<>>, depth)
         [] type.kind = "intersection" ->
              propertiesOfMembers(schema, type.intersectionMembers, <<>>, depth)
         [] type.kind = "partial" ->
              computePropertiesFrom(schema, type.elementType, depth + 1)

computePropertiesOfType(schema, type) == computePropertiesFrom(schema, type, 0)

(***************************************************************************)
(* String formats (validators.ts) and checkSpecialStringType.              *)
(* The formats validated by this repository's own code are modelled; the   *)
(* formats handed to a library (IsoDate, IsoDatetime, Email) or to a       *)
(* lookup table are not, and no type of the model carries their names.     *)
(***************************************************************************)
MaxTrimmedLength == 100

\* s matches the pattern: "#" stands for [0-9], any other chunk for itself
MatchesPattern(s, pattern) ==
  /\ Len(s) = Len(pattern)
  /\ \A i \in 1..Len(s) :
       IF pattern[i] = "#" THEN s[i] \in Digits ELSE s[i] = pattern[i]

AllDigits(s) == s # <<>> /\ \A i \in 1..Len(s) : s[i] \in Digits

validateSocialSecurityNumber(value) ==
  IF ~MatchesPattern(Trim(value), <<"#", "#", "#", "-", "#", "#", "-", "#", "#", "#", "#">>)
    THEN <<"SSN must use ###-##-#### format.">>
    ELSE <<>>

validatePhoneNumber(value) ==
  IF ~MatchesPattern(Trim(value),
                     <<"+", "1", "#", "#", "#", "#", "#", "#", "#", "#", "#", "#">>)
    THEN <<"Phone numbers must use +1########## format.">>
    ELSE <<>>

validatePostalCode(value) ==
  IF /\ ~MatchesPattern(Trim(value), <<"#", "#", "#", "#", "#", "-", "#", "#", "#", "#">>)
     /\ ~MatchesPattern(Trim(value), <<"#", "#", "#", "#", "#">>)
    THEN <<"Postal code must use ##### or #####-#### format.">>
    ELSE <<>>

validateTrimmedString(value) ==
  IF Trim(value) = <<>> THEN <<"Cannot be empty.">>
  ELSE IF StrLen(Trim(value)) > MaxTrimmedLength
    THEN <<"Enter at most 100 characters.">>
  ELSE <<>>

\* /^-?[1-9][0-9]*$/
IsInteger(s) ==
  LET digits == IF s # <<>> /\ Head(s) = "-" THEN Tail(s) ELSE s IN
  AllDigits(digits) /\ Head(digits) # "0"

\* /^[0-9]+.[0-9]+$/ : the dot of the source's pattern is not escaped
IsDecimalUnsigned(s) ==
  \E k \in 2..(Len(s) - 1) :
    /\ AllDigits(SubSeq(s, 1, k - 1))
    /\ Len(s[k]) = 1 /\ s[k] # NL
    /\ AllDigits(SubSeq(s, k + 1, Len(s)))

\* /^-?[0-9]+.[0-9]+$/
IsDecimal(s) ==
  \/ IsDecimalUnsigned(s)
  \/ s # <<>> /\ Head(s) = "-" /\ IsDecimalUnsigned(Tail(s))

validateNumericString(value) ==
  LET v == Trim(value) IN
  IF ~(v = <<"0">> \/ IsInteger(v) \/ IsDecimal(v))
    THEN <<"Must be a valid number, e.g. '1.24'.">>
    ELSE <<>>

\* value.split('.')[1]
AfterDot(v) ==
  LET first == CHOOSE i \in 1..Len(v) : v[i] = "." /\ \A j \in 1..(i - 1) : v[j] # "."
      rest == SubSeq(v, first + 1, Len(v))
  IN IF Includes(rest, ".")
       THEN SubSeq(rest, 1, (CHOOSE i \in 1..Len(rest) :
                               rest[i] = "." /\ \A j \in 1..(i - 1) : rest[j] # ".") - 1)
       ELSE rest

validateDollarAmount(value) ==
  LET v == Trim(value) IN
  IF validateNumericString(v) # <<>> THEN validateNumericString(v)
  ELSE IF Includes(v, ".") /\ StrLen(AfterDot(v)) > 2
    THEN <<"Use at most 2 decimal places.">>
  ELSE IF Includes(v, "-") THEN <<"Enter a positive number.">>
  ELSE <<>>

ModelledFormats ==
  {<<"TrimmedString">>, <<"PhoneNumber">>, <<"SocialSecurityNumber">>,
   <<"PostalCode">>, <<"NumericString">>, <<"DollarAmount">>}

TrimmedFormats ==
  {<<"TrimmedString">>, <<"Email">>, <<"DollarAmount">>, <<"NumericString">>}

validator(specialName, value) ==
  CASE specialName = <<"TrimmedString">> -> validateTrimmedString(value)
    [] specialName = <<"PhoneNumber">> -> validatePhoneNumber(value)
    [] specialName = <<"SocialSecurityNumber">> -> validateSocialSecurityNumber(value)
    [] specialName = <<"PostalCode">> -> validatePostalCode(value)
    [] specialName = <<"NumericString">> -> validateNumericString(value)
    [] specialName = <<"DollarAmount">> -> validateDollarAmount(value)

\* checkSpecialStringType(value, type), value being the string's chunks
checkSpecialStringType(value, type) ==
  IF ~Has(type, "specialName") THEN Done
  ELSE IF type.specialName \in ModelledFormats
          /\ validator(type.specialName, value) # <<>>
    THEN Fail(validator(type.specialName, value) \o <<" Got '">> \o value
                \o <<"' for ">> \o type.specialName)
  ELSE IF type.specialName \in TrimmedFormats /\ value # Trim(value)
    THEN Fail(type.specialName \o <<" must not have extra whitespace, but found '">>
                \o value \o <<"' == value != value.trim() == '">> \o Trim(value)
                \o <<"'">>)
  ELSE Done

(***************************************************************************)
(* checkValueAgainstTypeHelper (check-type.ts): one operator per case of   *)
(* its switch.  type is the resolved type; options is                      *)
(* [partial, ignoredFields], NoOptions when the call passes none.          *)
(***************************************************************************)
NoOptions == [partial |-> FALSE, ignoredFields |-> <<>>]
Ignoring(fields) == [partial |-> FALSE, ignoredFields |-> fields]

StackOverflow == Throw("RangeError", <<"Maximum call stack size exceeded">>)

checkJsType(value, jsType) ==
  IF typeof(value) # jsType
    THEN Fail(<<"Expected Javascript type ", jsType, ", but got type ", typeof(value)>>)
    ELSE Done

MissingField(name) ==
  Fail(<<"Field '">> \o name \o <<"' is not optional but missing from value">>)

KeyPath(valueString, key) == valueString \o <<"['">> \o key \o <<"']">>

RECURSIVE checkValueAgainstTypeHelper(_, _, _, _, _, _, _)
RECURSIVE checkDictionary(_, _, _, _, _, _, _)
RECURSIVE checkProperties(_, _, _, _, _, _, _)
RECURSIVE checkMembers(_, _, _, _, _, _)
RECURSIVE tryMembers(_, _, _, _, _, _, _, _, _)
RECURSIVE checkElements(_, _, _, _, _, _, _)
RECURSIVE checkFields(_, _, _, _, _, _, _)

caseString(value, type, schema, valueString, typeString, depth, options) ==
  IF ~IsRet(checkJsType(value, "string")) THEN checkJsType(value, "string")
  ELSE checkSpecialStringType(value.s, type)

caseBuiltIn(value, type, schema, valueString, typeString, depth, options) ==
  checkJsType(value, type.kind)

caseBooleanLiteral(value, type, schema, valueString, typeString, depth, options) ==
  IF ~IsRet(checkJsType(value, "boolean")) THEN checkJsType(value, "boolean")
  ELSE IF value.b # type.value
    THEN Fail(<<"Expected ", IF type.value THEN "true" ELSE "false", " literal">>)
  ELSE Done

caseKeyof(value, type, schema, valueString, typeString, depth, options) ==
  IF ~IsRet(checkJsType(value, "string")) THEN checkJsType(value, "string")
  ELSE LET keys == computePropertiesOfType(schema, type.base) IN
       IF ~IsRet(keys) THEN keys
       ELSE IF ~SeqIncludes(keys.val, value.s)
         THEN Fail(<<"Expected one of [">> \o Join(MapQuote(keys.val), <<",">>)
                     \o <<"], but got '">> \o value.s \o <<"'">>)
       ELSE Done

\* for (const field of keys): the properties not in ignored, against type
checkDictionary(value, keys, ignored, type, schema, valueString, depth) ==
  IF keys = <<>> THEN Done
  ELSE IF SeqIncludes(ignored, Head(keys))
    THEN checkDictionary(value, Tail(keys), ignored, type, schema, valueString, depth)
  ELSE LET r == checkValueAgainstTypeHelper(Get(value, Head(keys)), type, schema,
                                            KeyPath(valueString, Head(keys)),
                                            typeToShortString(type, None),
                                            depth + 1, NoOptions)
       IN IF ~IsRet(r) THEN r
          ELSE checkDictionary(value, Tail(keys), ignored, type, schema, valueString, depth)

caseIndexSignature(value, type, schema, valueString, typeString, depth, options) ==
  IF ~IsRet(checkJsType(value, "object")) THEN checkJsType(value, "object")
  ELSE IF ~IsRet(ObjectKeys(value)) THEN ObjectKeys(value)
  ELSE checkDictionary(value, ObjectKeys(value).val, <<>>, type.valueType, schema,
                       valueString, depth)

\* an omit that ignores its own omittedFields only
caseOmitReplacing(value, type, schema, valueString, typeString, depth, options) ==
  checkValueAgainstTypeHelper(value, type.base, schema, valueString,
                              typeToShortString(type, None), depth + 1,
                              Ignoring(type.omittedFields))

caseOmit(value, type, schema, valueString, typeString, depth, options) ==
  checkValueAgainstTypeHelper(value, type.base, schema, valueString,
                              typeToShortString(type, None), depth + 1,
                              Ignoring(options.ignoredFields \o type.omittedFields))

\* for (const property of properties)
checkProperties(value, properties, type, schema, valueString, depth, options) ==
  IF properties = <<>> THEN Done
  ELSE LET property == Head(properties)
           rest == checkProperties(value, Tail(properties), type, schema,
                                   valueString, depth, options)
       IN IF SeqIncludes(options.ignoredFields, property) THEN rest
          ELSE IF ~type.optional /\ ~options.partial /\ ~hasProperty(value, property)
            THEN MissingField(property)
          ELSE IF hasProperty(value, property)
            THEN LET r == checkValueAgainstTypeHelper(
                            Get(value, property), type.mapTo, schema,
                            KeyPath(valueString, property),
                            typeToShortString(type.mapTo, None), depth + 1, NoOptions)
                 IN IF ~IsRet(r) THEN r ELSE rest
          ELSE rest

caseMapped(value, type, schema, valueString, typeString, depth, options) ==
  IF ~IsRet(checkJsType(value, "object")) THEN checkJsType(value, "object")
  ELSE IF type.mapFrom.kind = "string"
    THEN IF ~IsRet(ObjectKeys(value)) THEN ObjectKeys(value)
         ELSE checkDictionary(value, ObjectKeys(value).val, options.ignoredFields,
                              type.mapTo, schema, valueString, depth)
  ELSE LET properties == computePropertiesOfType(schema, type) IN
       IF ~IsRet(properties)
         THEN Throw("Error", <<"Cannot type-check mapped type with mapFrom type ">>
                               \o typeToString(type.mapFrom, FALSE)
                               \o <<", because properties are not fixed: ">>
                               \o exceptionToString(properties))
         ELSE checkProperties(value, properties.val, type, schema, valueString,
                              depth, options)

caseNull(value, type, schema, valueString, typeString, depth, options) ==
  IF value.t # "null" THEN Fail(<<"Expected null value">>) ELSE Done

caseUndefined(value, type, schema, valueString, typeString, depth, options) ==
  IF value.t # "undefined" THEN Fail(<<"Expected undefined value">>) ELSE Done

caseStringLiteral(value, type, schema, valueString, typeString, depth, options) ==
  IF ~IsRet(checkJsType(value, "string")) THEN checkJsType(value, "string")
  ELSE IF value.s # type.value
    THEN Fail(<<"Expected string literal '">> \o type.value \o <<"', but got '">>
                \o value.s \o <<"'">>)
  ELSE Done

caseNumberLiteral(value, type, schema, valueString, typeString, depth, options) ==
  IF ~IsRet(checkJsType(value, "number")) THEN checkJsType(value, "number")
  ELSE IF value.n # type.value
    THEN Fail(<<"Expected number literal '">> \o NumberToString(type.value)
                \o <<"', but got '">> \o NumberToString(value.n) \o <<"'">>)
  ELSE Done

\* for (const member of members): every member, with the ignored fields
checkMembers(value, members, schema, valueString, depth, options) ==
  IF members = <<>> THEN Done
  ELSE LET r == checkValueAgainstTypeHelper(value, Head(members), schema, valueString,
                                            typeToString(Head(members), TRUE),
                                            depth + 1, Ignoring(options.ignoredFields))
       IN IF ~IsRet(r) THEN r
          ELSE checkMembers(value, Tail(members), schema, valueString, depth, options)

\* an intersection that checks its first member only
caseIntersectionFirstMember(value, type, schema, valueString, typeString, depth, options) ==
  checkMembers(value, SubSeq(type.intersectionMembers, 1, 1), schema, valueString,
               depth, options)

caseIntersection(value, type, schema, valueString, typeString, depth, options) ==
  checkMembers(value, type.intersectionMembers, schema, valueString, depth, options)

\* type.unionMembers.find(...): the first member that resolves to an interface
\* with a field kind: '<kind>'
RECURSIVE findKindMember(_, _, _)
findKindMember(schema, members, kind) ==
  IF members = <<>>
    THEN Throw("Error", <<"Expected non-null value, but got undefined.">>)
  ELSE LET resolvedMember == resolveType(schema, Head(members)) IN
       IF ~IsRet(resolvedMember) THEN resolvedMember
       ELSE IF /\ resolvedMember.val.kind = "interface"
               /\ \E i \in 1..Len(resolvedMember.val.fields) :
                    LET field == resolvedMember.val.fields[i] IN
                    /\ field.name = <<"kind">>
                    /\ field.type.kind = "string-literal"
                    /\ field.type.value = kind
         THEN Ret(Head(members))
       ELSE findKindMember(schema, Tail(members), kind)

\* Special case: union with kind
unionWithKind(value, type, schema, valueString, typeString, depth, options) ==
  IF ~IsRet(checkJsType(value, "object")) THEN checkJsType(value, "object")
  ELSE IF ~hasProperty(value, <<"kind">>)
    THEN Fail(<<"Field 'kind' is missing from union">>)
  ELSE LET kind == Get(value, <<"kind">>) IN
       IF typeof(kind) # "string"
         THEN Fail(<<"Expected field 'kind' to have Javascript type string, but found type ",
                     typeof(kind)>>)
       ELSE IF ~SeqIncludes(type.kinds, kind.s)
         THEN Fail(<<"Expected field 'kind' to be one of [">>
                     \o Join(MapQuote(type.kinds), <<", ">>)
                     \o <<"], but got '">> \o kind.s \o <<"'">>)
       ELSE LET unionKindType == findKindMember(schema, type.unionMembers, kind.s) IN
            IF ~IsRet(unionKindType) THEN unionKindType
            ELSE checkValueAgainstTypeHelper(
                   value, unionKindType.val, schema, valueString,
                   typeToShortString(unionKindType.val,
                                     Some(typeString \o <<"[kind == '">> \o kind.s
                                            \o <<"']">>)),
                   depth + 1, Ignoring(options.ignoredFields))

\* Generic handling: the members from the i-th on, errors holding the failures so far
tryMembers(value, type, i, errors, schema, valueString, typeString, depth, options) ==
  IF i > Len(type.unionMembers)
    THEN Fail(<<"No union member matches:", NL>> \o Join(errors, <<NL>>))
  ELSE LET option == type.unionMembers[i]
           r == checkValueAgainstTypeHelper(
                  value, option, schema, valueString,
                  typeToShortString(option, Some(typeString \o <<"[">> \o ith(i)
                                                   \o <<" union member]">>)),
                  depth + 1, Ignoring(options.ignoredFields))
       IN IF IsRet(r) THEN Done
          ELSE IF ~IsFail(r) THEN r
          ELSE tryMembers(value, type, i + 1,
                          Append(errors, <<"- tried ">> \o ith(i)
                                           \o <<" union member, but got:", NL, "  ">>
                                           \o indent(r.msg)),
                          schema, valueString, typeString, depth, options)

\* an enum check that takes every string
unionEnumAnyString(value, enums) == checkJsType(value, "string")

unionEnum(value, enums) ==
  IF ~IsRet(checkJsType(value, "string")) THEN checkJsType(value, "string")
  ELSE IF SeqIncludes(enums, value.s) THEN Done
  ELSE Fail(<<"Expected one of [">> \o Join(MapQuote(enums), <<", ">>)
              \o <<"], but got '">> \o value.s \o <<"'">>)

caseUnion(value, type, schema, valueString, typeString, depth, options) ==
  IF isEnum(type).defined THEN unionEnum(value, isEnum(type).values)
  ELSE LET viaKind == IF Has(type, "kinds")
                        THEN unionWithKind(value, type, schema, valueString,
                                           typeString, depth, options)
                        ELSE Done
       IN IF ~IsRet(viaKind) THEN viaKind
          ELSE tryMembers(value, type, 1, <<>>, schema, valueString, typeString,
                          depth, options)

\* an element loop that checks the elements after the i-th before the i-th
checkElementsRestFirst(value, i, elementType, schema, valueString, typeString, depth) ==
  IF i > Len(value.elems) THEN Done
  ELSE IF ~IsRet(checkElements(value, i + 1, elementType, schema, valueString,
                               typeString, depth))
    THEN checkElements(value, i + 1, elementType, schema, valueString, typeString, depth)
  ELSE checkValueAgainstTypeHelper(
         value.elems[i], elementType, schema,
         valueString \o <<"[">> \o NumberToString(i - 1) \o <<"]">>,
         typeToShortString(elementType, Some(typeString \o <<"[array element type]">>)),
         depth + 1, NoOptions)

\* for (let i = 0; i < value.length; ++i), i counting from 1 here
checkElements(value, i, elementType, schema, valueString, typeString, depth) ==
  IF i > Len(value.elems) THEN Done
  ELSE LET r == checkValueAgainstTypeHelper(
                  value.elems[i], elementType, schema,
                  valueString \o <<"[">> \o NumberToString(i - 1) \o <<"]">>,
                  typeToShortString(elementType,
                                    Some(typeString \o <<"[array element type]">>)),
                  depth + 1, NoOptions)
       IN IF ~IsRet(r) THEN r
          ELSE checkElements(value, i + 1, elementType, schema, valueString,
                             typeString, depth)

caseArray(value, type, schema, valueString, typeString, depth, options) ==
  IF ~IsRet(checkJsType(value, "object")) THEN checkJsType(value, "object")
  ELSE IF value.t # "array"
    THEN Fail(<<"Expected an array, but value is not an array">>)
  ELSE checkElements(value, 1, type.elementType, schema, valueString, typeString, depth)

casePartial(value, type, schema, valueString, typeString, depth, options) ==
  LET elementType == resolveType(schema, type.elementType) IN
  IF ~IsRet(elementType) THEN elementType
  ELSE checkValueAgainstTypeHelper(
         value, elementType.val, schema, valueString,
         typeToShortString(type, Some(<<"Partial<">> \o typeString \o <<">">>)),
         depth + 1, [partial |-> TRUE, ignoredFields |-> options.ignoredFields])

\* a field loop that hands its options, partial included, down to the check
\* of a field's value
checkFieldsDeep(value, fields, schema, valueString, typeString, depth, options) ==
  IF fields = <<>> THEN Done
  ELSE IF SeqIncludes(options.ignoredFields, Head(fields).name)
    THEN checkFields(value, Tail(fields), schema, valueString, typeString, depth, options)
  ELSE IF ~Head(fields).optional /\ ~options.partial
            /\ ~hasProperty(value, Head(fields).name)
    THEN MissingField(Head(fields).name)
  ELSE IF hasProperty(value, Head(fields).name)
            /\ ~IsRet(checkValueAgainstTypeHelper(
                        Get(value, Head(fields).name), Head(fields).type, schema,
                        KeyPath(valueString, Head(fields).name),
                        typeToShortString(Head(fields).type,
                                          Some(KeyPath(typeString, Head(fields).name))),
                        depth + 1, options))
    THEN checkValueAgainstTypeHelper(
           Get(value, Head(fields).name), Head(fields).type, schema,
           KeyPath(valueString, Head(fields).name),
           typeToShortString(Head(fields).type,
                             Some(KeyPath(typeString, Head(fields).name))),
           depth + 1, options)
  ELSE checkFields(value, Tail(fields), schema, valueString, typeString, depth, options)

\* for (const field of type.fields)
checkFields(value, fields, schema, valueString, typeString, depth, options) ==
  IF fields = <<>> THEN Done
  ELSE LET field == Head(fields)
           rest == checkFields(value, Tail(fields), schema, valueString,
                               typeString, depth, options)
       IN IF SeqIncludes(options.ignoredFields, field.name) THEN rest
          ELSE IF ~field.optional /\ ~options.partial /\ ~hasProperty(value, field.name)
            THEN MissingField(field.name)
          ELSE IF hasProperty(value, field.name)
            THEN LET r == checkValueAgainstTypeHelper(
                            Get(value, field.name), field.type, schema,
                            KeyPath(valueString, field.name),
                            typeToShortString(field.type,
                                              Some(KeyPath(typeString, field.name))),
                            depth + 1, NoOptions)
                 IN IF ~IsRet(r) THEN r ELSE rest
          ELSE rest

\* an interface that rejects a property that is no field of its own
caseInterfaceExact(value, type, schema, valueString, typeString, depth, options) ==
  IF ~IsRet(checkJsType(value, "object")) THEN checkJsType(value, "object")
  ELSE LET own == checkFields(value, type.fields, schema, valueString, typeString,
                              depth, options)
           keys == ObjectKeys(value)
       IN IF ~IsRet(own) THEN own
          ELSE IF /\ IsRet(keys)
                  /\ \E i \in 1..Len(keys.val) :
                       ~SeqIncludes(FieldNames(type.fields), keys.val[i])
            THEN Fail(<<"Unexpected field">>)
          ELSE checkMembers(value, type.heritage, schema, valueString, depth, options)

caseInterface(value, type, schema, valueString, typeString, depth, options) ==
  IF ~IsRet(checkJsType(value, "object")) THEN checkJsType(value, "object")
  ELSE LET own == checkFields(value, type.fields, schema, valueString, typeString,
                              depth, options)
       IN IF ~IsRet(own) THEN own
          ELSE checkMembers(value, type.heritage, schema, valueString, depth, options)

\* the switch on type.kind
dispatch(value, type, schema, valueString, typeString, depth, options) ==
  CASE type.kind = "string" ->
         caseString(value, type, schema, valueString, typeString, depth, options)
    [] type.kind \in {"number", "boolean"} ->
         caseBuiltIn(value, type, schema, valueString, typeString, depth, options)
    [] type.kind = "unknown" -> Done
    [] type.kind = "boolean-literal" ->
         caseBooleanLiteral(value, type, schema, valueString, typeString, depth, options)
    [] type.kind = "keyof" ->
         caseKeyof(value, type, schema, valueString, typeString, depth, options)
    [] type.kind = "index-signature" ->
         caseIndexSignature(value, type, schema, valueString, typeString, depth, options)
    [] type.kind = "omit" ->
         caseOmit(value, type, schema, valueString, typeString, depth, options)
    [] type.kind = "mapped" ->
         caseMapped(value, type, schema, valueString, typeString, depth, options)
    [] type.kind = "null" ->
         caseNull(value, type, schema, valueString, typeString, depth, options)
    [] type.kind = "undefined" ->
         caseUndefined(value, type, schema, valueString, typeString, depth, options)
    [] type.kind = "string-literal" ->
         caseStringLiteral(value, type, schema, valueString, typeString, depth, options)
    [] type.kind = "number-literal" ->
         caseNumberLiteral(value, type, schema, valueString, typeString, depth, options)
    [] type.kind = "intersection" ->
         caseIntersection(value, type, schema, valueString, typeString, depth, options)
    [] type.kind = "union" ->
         caseUnion(value, type, schema, valueString, typeString, depth, options)
    [] type.kind = "array" ->
         caseArray(value, type, schema, valueString, typeString, depth, options)
    [] type.kind = "partial" ->
         casePartial(value, type, schema, valueString, typeString, depth, options)
    [] type.kind = "interface" ->
         caseInterface(value, type, schema, valueString, typeString, depth, options)
    [] OTHER -> Done

\* handleTypecheckingError with the error handler of a frame: a
\* TypecheckingError gains one While checking line, anything else passes
whileChecking(r, value, type, valueString, typeString) ==
  IF ~IsFail(r) THEN r
  ELSE Fail(r.msg \o <<NL, "While checking ">> \o valueToShortString(value, valueString)
              \o <<" against type ">> \o typeToShortString(type, Some(typeString)))

checkValueAgainstTypeHelper(value, type, schema, valueString, typeString, depth, options) ==
  IF depth > MaxStack THEN StackOverflow
  ELSE LET resolution == resolveType(schema, type)
           resolved == resolution.val
       IN IF ~IsRet(resolution) THEN resolution
          ELSE whileChecking(
                 IF options.partial /\ resolved.kind # "interface"
                   THEN Throw("Error",
                              <<"Can only check Partial<T> for interface T, but T was ">>
                                \o typeToString(resolved, FALSE))
                   ELSE dispatch(value, resolved, schema, valueString, typeString,
                                 depth, options),
                 value, resolved, valueString, typeString)

(***************************************************************************)
(* A type node as the JSON value objectToJson(type) prints.  The model's   *)
(* nodes carry no filename, so none is printed.                            *)
(***************************************************************************)
RECURSIVE typeAsValue(_)
RECURSIVE typesAsValues(_)
RECURSIVE fieldsAsValues(_)
RECURSIVE stringsAsValues(_)

stringsAsValues(ss) ==
  IF ss = <<>> THEN <<>> ELSE <<StrV(Head(ss))>> \o stringsAsValues(Tail(ss))

typesAsValues(ts) ==
  IF ts = <<>> THEN <<>> ELSE <<typeAsValue(Head(ts))>> \o typesAsValues(Tail(ts))

fieldsAsValues(fs) ==
  IF fs = <<>> THEN <<>>
  ELSE <<Obj(<<P("name", StrV(Head(fs).name)),
               P("type", typeAsValue(Head(fs).type)),
               P("optional", Bool(Head(fs).optional))>>)>>
         \o fieldsAsValues(Tail(fs))

typeAsValue(type) ==
  LET kind == <<P("kind", StrV(<<type.kind>>))>>
      name == IF Has(type, "name") THEN <<P("name", StrV(type.name))>> ELSE <<>>
      own ==
        CASE type.kind = "string" ->
               IF Has(type, "specialName")
                 THEN <<P("specialName", StrV(type.specialName))>> ELSE <<>>
          [] type.kind \in {"array", "partial"} ->
               <<P("elementType", typeAsValue(type.elementType))>>
          [] type.kind = "union" ->
               <<P("unionMembers", Arr(typesAsValues(type.unionMembers)))>>
          [] type.kind = "intersection" ->
               <<P("intersectionMembers", Arr(typesAsValues(type.intersectionMembers)))>>
          [] type.kind = "string-literal" -> <<P("value", StrV(type.value))>>
          [] type.kind = "number-literal" -> <<P("value", Num(type.value))>>
          [] type.kind = "boolean-literal" -> <<P("value", Bool(type.value))>>
          [] type.kind = "reference-type" ->
               <<P("referencedTypeName", StrV(type.referencedTypeName))>>
          [] type.kind = "interface" ->
               <<P("fields", Arr(fieldsAsValues(type.fields))),
                 P("heritage", Arr(typesAsValues(type.heritage)))>>
          [] type.kind = "mapped" ->
               <<P("mapFrom", typeAsValue(type.mapFrom)),
                 P("optional", Bool(type.optional)),
                 P("mapTo", typeAsValue(type.mapTo))>>
          [] type.kind = "index-signature" ->
               <<P("keyType", typeAsValue(type.keyType)),
                 P("valueType", typeAsValue(type.valueType))>>
          [] type.kind = "omit" ->
               <<P("base", typeAsValue(type.base)),
                 P("omittedFields", Arr(stringsAsValues(type.omittedFields)))>>
          [] type.kind = "keyof" -> <<P("base", typeAsValue(type.base))>>
          [] OTHER -> <<>>
      kinds == IF Has(type, "kinds")
                 THEN <<P("kinds", Arr(stringsAsValues(type.kinds)))>> ELSE <<>>
  IN Obj(kind \o own \o name \o kinds)

(***************************************************************************)
(* checkValueAgainstType (check-type.ts): "" when value conforms to type,  *)
(* else the diagnostic.                                                    *)
(***************************************************************************)
\* error.message.split('\n').slice(0, -1).join('\n')
WithoutLastLine(message) ==
  Join(SubSeq(Split(message), 1, Len(Split(message)) - 1), <<NL>>)

diagnostic(error, value, type, valueString, typeString) ==
  LET shortValueString == valueToShortString(value, valueString) IN
  shortValueString \o <<" does not conform to ">>
    \o typeToShortString(type, Some(typeString)) \o <<"!", NL, NL>>
    \o (IF valueString # shortValueString
          THEN WithoutLastLine(error.msg)
          ELSE error.msg \o <<NL, "value = ">> \o objectToJson(value))
    \o <<NL>>
    \o (IF Includes(error.msg, "_TYPE_")
          THEN <<NL, "_TYPE_ = ">> \o objectToJson(typeAsValue(type))
          ELSE <<>>)

\* the try/catch around the helper: '' when it completes, the diagnostic
\* for a TypecheckingError, any other error thrown on
caught(r, value, type, valueString, typeString) ==
  IF IsFail(r) THEN Ret(diagnostic(r, value, type, valueString, typeString))
  ELSE IF IsRet(r) THEN Ret(<<>>)
  ELSE r

checkValueAgainstType(value, type, schema) ==
  caught(checkValueAgainstTypeHelper(value, type, schema, <<"value">>, <<"_TYPE_">>,
                                     0, NoOptions),
         value, type, <<"value">>, <<"_TYPE_">>)

(***************************************************************************)
(* The entry points generate-schema.ts emits into check-type.generated.ts. *)
(***************************************************************************)
\* if (error != '') throw new Error(error); return value
throwIfError(error, value) ==
  IF ~IsRet(error) THEN error
  ELSE IF error.val # <<>> THEN Throw("Error", error.val)
  ELSE Ret(value)

\* an assert<T.name> that returns its argument whatever the checker says
assertTUnchecked(name, value, schema) ==
  LET error == checkValueAgainstType(value, TypesGet(schema, name), schema) IN
  IF ~IsRet(error) THEN error ELSE Ret(value)

\* export function assert<T.name>(value)
assertT(name, value, schema) ==
  throwIfError(checkValueAgainstType(value, TypesGet(schema, name), schema), value)

\* export function assert<Format>(value), for a used special type
assertFormat(format, value, schema) ==
  throwIfError(checkValueAgainstType(value, [kind |-> "string"], schema), value)

\* export function propertiesOfType(typeName)
propertiesOfType(typeName, schema) ==
  computePropertiesOfType(schema, TypesGet(schema, typeName))

(***************************************************************************)
(* The extractor's last steps (generate-schema-main.ts): parseTypes fills  *)
(* in the kinds of the unions visitAllTypes reaches, then checks that      *)
(* every type used is defined.                                             *)
(***************************************************************************)
RECURSIVE FieldTypes(_)
FieldTypes(fs) ==
  IF fs = <<>> THEN <<>> ELSE <<Head(fs).type>> \o FieldTypes(Tail(fs))

TypesOf(entries) == [i \in 1..Len(entries) |-> entries[i].v]

\* allTypes(schema)
allTypes(schema) == TypesOf(schema.types)

\* the nodes recurseOnType visits from type, in visiting order
RECURSIVE recurseOnType(_)
RECURSIVE recurseOnTypes(_)

recurseOnTypes(ts) ==
  IF ts = <<>> THEN <<>>
  ELSE IF Len(ts) = 1 THEN recurseOnType(ts[1])
  ELSE recurseOnTypes(SubSeq(ts, 1, Len(ts) \div 2))
         \o recurseOnTypes(SubSeq(ts, Len(ts) \div 2 + 1, Len(ts)))

recurseOnType(type) ==
  <<type>> \o
    CASE type.kind \in {"array", "partial"} -> recurseOnType(type.elementType)
      [] type.kind = "mapped" ->
           recurseOnType(type.mapFrom) \o recurseOnType(type.mapTo)
      [] type.kind = "union" -> recurseOnTypes(type.unionMembers)
      [] type.kind = "intersection" -> recurseOnTypes(type.intersectionMembers)
      [] type.kind = "interface" ->
           recurseOnTypes(FieldTypes(type.fields)) \o recurseOnTypes(type.heritage)
      [] OTHER -> <<>>

\* the nodes visitAllTypes(schema, visitor) hands to its visitor
visitAllTypes(schema) == recurseOnTypes(allTypes(schema))

\* unionKinds(types, members): the kinds, or undefined (defined = FALSE)
RECURSIVE unionKindsFrom(_, _, _)
unionKindsFrom(types, members, result) ==
  IF members = <<>> THEN Ret([defined |-> TRUE, values |-> result])
  ELSE LET resolvedMember == resolveType(types, Head(members)) IN
       IF ~IsRet(resolvedMember) THEN resolvedMember
       ELSE IF /\ resolvedMember.val.kind = "interface"
               /\ \E i \in 1..Len(resolvedMember.val.fields) :
                    LET field == resolvedMember.val.fields[i] IN
                    field.name = <<"kind">> /\ ~field.optional
                      /\ field.type.kind = "string-literal"
         THEN LET fields == resolvedMember.val.fields
                  kindField == fields[CHOOSE i \in 1..Len(fields) :
                                 /\ fields[i].name = <<"kind">> /\ ~fields[i].optional
                                 /\ fields[i].type.kind = "string-literal"
                                 /\ \A j \in 1..(i - 1) :
                                      ~(/\ fields[j].name = <<"kind">>
                                        /\ ~fields[j].optional
                                        /\ fields[j].type.kind = "string-literal")]
              IN unionKindsFrom(types, Tail(members),
                                Append(result, kindField.type.value))
       ELSE Ret([defined |-> FALSE])

unionKinds(types, members) == unionKindsFrom(types, members, <<>>)

\* type, with type.kinds = unionKinds(...) assigned in every union visited from it
RECURSIVE withKinds(_, _)
RECURSIVE membersWithKinds(_, _)
RECURSIVE fieldsWithKinds(_, _)

membersWithKinds(types, ts) ==
  IF ts = <<>> THEN <<>>
  ELSE <<withKinds(types, Head(ts))>> \o membersWithKinds(types, Tail(ts))

fieldsWithKinds(types, fs) ==
  IF fs = <<>> THEN <<>>
  ELSE <<[Head(fs) EXCEPT !.type = withKinds(types, @)]>>
         \o fieldsWithKinds(types, Tail(fs))

withKinds(types, type) ==
  CASE type.kind \in {"array", "partial"} ->
         [type EXCEPT !.elementType = withKinds(types, @)]
    [] type.kind = "mapped" ->
         [type EXCEPT !.mapFrom = withKinds(types, @), !.mapTo = withKinds(types, @)]
    [] type.kind = "union" ->
         LET kinds == unionKinds(types, type.unionMembers)
             members == [type EXCEPT !.unionMembers = membersWithKinds(types, @)]
         IN IF IsRet(kinds) /\ kinds.val.defined
              THEN With(members, "kinds", kinds.val.values)
              ELSE members
    [] type.kind = "intersection" ->
         [type EXCEPT !.intersectionMembers = membersWithKinds(types, @)]
    [] type.kind = "interface" ->
         [type EXCEPT !.fields = fieldsWithKinds(types, @),
                      !.heritage = membersWithKinds(types, @)]
    [] OTHER -> type

entriesWithKinds(types, entries) ==
  [i \in 1..Len(entries) |-> [entries[i] EXCEPT !.v = withKinds(types, @)]]

\* the completions that are throws, in order
Throws(completions) == SelectSeq(completions, LAMBDA c : ~IsRet(c))

\* name in result: result is { types, assertedTypes }, an object that
\* inherits the properties of Object.prototype
ObjectPrototypeKeys ==
  {<<"constructor">>, <<"toString">>, <<"valueOf">>, <<"hasOwnProperty">>}

InResult(result, name) ==
  name \in {<<"types">>, <<"assertedTypes">>} \cup ObjectPrototypeKeys

\* result.types[name] = node: a new key goes last, a key already there keeps
\* its place and takes the new node
TypesSet(types, name, node) ==
  IF \E i \in 1..Len(types) : types[i].k = name
    THEN [i \in 1..Len(types) |->
            IF types[i].k = name THEN [k |-> name, v |-> node] ELSE types[i]]
    ELSE Append(types, [k |-> name, v |-> node])

\* visit(result, ..., node) for an annotated declaration: declaration.k is its
\* name, declaration.v the node nodeToType makes of it
visit(result, declaration) ==
  IF InResult(result, declaration.k)
    THEN Throw("Error", <<"Duplicate definition for type with ">> \o declaration.k
                          \o <<". Namespaces/modules are not currently supported.">>)
    ELSE Ret([types |-> TypesSet(result.types, declaration.k, declaration.v)])

\* ts.forEachChild(sourceFile, node => visit(...)) over the declarations
RECURSIVE visitEach(_, _)
visitEach(result, declarations) ==
  IF declarations = <<>> THEN Ret(result)
  ELSE IF Len(declarations) = 1 THEN visit(result, declarations[1])
  ELSE LET half == Len(declarations) \div 2
           visited == visitEach(result, SubSeq(declarations, 1, half))
       IN IF ~IsRet(visited) THEN visited
          ELSE visitEach(visited.val, SubSeq(declarations, half + 1, Len(declarations)))

\* the two visitAllTypes passes of parseTypes over the collected result:
\* fill in kinds, then check that every type used is defined
kindsAndConsistency(result) ==
  LET visited == visitAllTypes(result)
      filling == Throws([i \in 1..Len(visited) |->
                           IF visited[i].kind = "union"
                             THEN unionKinds(result, visited[i].unionMembers)
                             ELSE Done])
      checking == Throws([i \in 1..Len(visited) |-> resolveType(result, visited[i])])
  IN IF filling # <<>> THEN Head(filling)
     ELSE IF checking # <<>> THEN Head(checking)
     ELSE Ret([types |-> entriesWithKinds(result, result.types)])

\* the result before the first declaration is visited
EmptyResult == [types |-> <<>>]

\* parseTypes over the annotated declarations of a program, in source order
parseTypes(declarations) ==
  LET collected == visitEach(EmptyResult, declarations) IN
  IF ~IsRet(collected) THEN collected ELSE kindsAndConsistency(collected.val)

\* usedSpecialTypes of generateCheckingFunctionsFile
usedSpecialTypes(schema) ==
  LET visited == visitAllTypes(schema) IN
  {visited[i].specialName :
     i \in {j \in 1..Len(visited) :
              visited[j].kind = "string" /\ Has(visited[j], "specialName")}}

(***************************************************************************)
(* The schema of the test suite (test/test-types.ts), with further         *)
(* declarations of the same shapes.                                        *)
(***************************************************************************)
Decl(name, type) == [k |-> <<name>>, v |-> With(type, "name", <<name>>)]

KindA == TInterface(<<Field("kind", FALSE, TLit("a"))>>, <<>>)
KindB == TInterface(<<Field("kind", FALSE, TLit("b")), Field("foo", FALSE, TNumber)>>, <<>>)
AOrB == TUnion(<<TLit("a"), TLit("b")>>)

Declarations ==
  << Decl("Interface", TInterface(<<Field("boolField", FALSE, TBoolean),
                                    Field("optionalField", TRUE, TBoolean)>>, <<>>)),
     Decl("Union", TUnion(<<KindA, KindB>>)),
     Decl("Enum", AOrB),
     Decl("MixedUnion", TUnion(<<TLit("a"), KindA>>)),
     Decl("Undef", TUndefined),
     Decl("Null", TNull),
     Decl("ArrayT", TArray(TNumber)),
     Decl("StringT", TString),
     Decl("NumberT", TNumber),
     Decl("RefT", TRef("SomeOtherNamedType")),
     Decl("SomeOtherNamedType", TLit("a")),
     Decl("Base", TInterface(<<Field("base", FALSE, TString)>>, <<>>)),
     Decl("Sub", TInterface(<<Field("sub", FALSE, TString)>>, <<TRef("Base")>>)),
     Decl("A", TInterface(<<Field("a", FALSE, TString)>>, <<>>)),
     Decl("B", TInterface(<<Field("b", FALSE, TString)>>, <<>>)),
     Decl("And", TIntersection(<<TRef("A"), TRef("B")>>)),
     Decl("RecString", TMapped(TString, FALSE, TNumber)),
     Decl("RecAB", TMapped(AOrB, FALSE, TNumber)),
     Decl("MappedABOptional", TMapped(AOrB, TRUE, TNumber)),
     Decl("MappedABOptionalIndirect", TMapped(TRef("Enum"), TRUE, TNumber)),
     Decl("IndexSignature", TIndexSignature(TString, TNumber)),
     Decl("CommonTypes",
          TInterface(<<Field("postalCode", TRUE, TSpecial("PostalCode")),
                       Field("phoneNumber", TRUE, TSpecial("PhoneNumber")),
                       Field("trimmedString", TRUE, TSpecial("TrimmedString"))>>,
                     <<>>)),
     Decl("OmitTypeNoSub", TOmit(TRef("Sub"), <<<<"sub">>>>)),
     Decl("OmitTypeNoBase", TOmit(TRef("Sub"), <<<<"base">>>>)),
     Decl("OmitTypeNoSubNoBase", TOmit(TRef("Sub"), <<<<"base">>, <<"sub">>>>)),
     Decl("KeyOfType", TKeyof(TRef("Sub"))),
     \* further declarations
     Decl("PartialInterface", TPartial(TRef("Interface"))),
     Decl("PartialSub", TPartial(TRef("Sub"))),
     Decl("SameKind",
          TUnion(<<TInterface(<<Field("kind", FALSE, TLit("a")),
                                Field("foo", FALSE, TNumber)>>, <<>>),
                   TInterface(<<Field("kind", FALSE, TLit("a")),
                                Field("a", FALSE, TString)>>, <<>>)>>)),
     Decl("NumberOrString", TUnion(<<TNumber, TString>>)),
     Decl("AOrNumber", TUnion(<<TRef("A"), TNumber>>)),
     Decl("IndexSignatureOrNull", TUnion(<<TRef("IndexSignature"), TNull>>)),
     Decl("AAndRecAB", TIntersection(<<TRef("A"), TRef("MappedABOptional")>>)),
     Decl("OmitUnionAll", TOmit(TRef("Union"), <<<<"kind">>, <<"foo">>>>)),
     Decl("OmitAndAll", TOmit(TRef("And"), <<<<"a">>, <<"b">>>>)),
     Decl("OmitRecABAll", TOmit(TRef("RecAB"), <<<<"a">>, <<"b">>>>)),
     Decl("KeyOfUnion", TKeyof(TRef("Union"))),
     Decl("KeyOfAnd", TKeyof(TRef("And"))),
     Decl("KeyOfRecAB", TKeyof(TRef("RecAB"))),
     Decl("KeyOfOmit", TKeyof(TRef("OmitTypeNoSub"))),
     Decl("RecStringIndirect", TMapped(TRef("StringT"), FALSE, TNumber)),
     Decl("OmitIndexSignature", TOmit(TRef("IndexSignature"), <<<<"a">>>>)),
     Decl("WithUnknown", TInterface(<<Field("a", FALSE, TUnknown)>>, <<>>)),
     Decl("Outer", TInterface(<<Field("inner", FALSE, TRef("Interface")),
                                Field("list", FALSE, TArray(TRef("Interface")))>>,
                              <<>>)),
     Decl("PartialOuter", TPartial(TRef("Outer"))),
     Decl("Both", TInterface(<<Field("sub", FALSE, TString)>>,
                             <<TRef("A"), TRef("B")>>)),
     Decl("OmitOmit", TOmit(TRef("OmitTypeNoSub"), <<<<"base">>>>)),
     Decl("OmitPartialSub", TOmit(TRef("PartialSub"), <<<<"base">>>>)),
     Decl("OmitAOrNumber", TOmit(TRef("AOrNumber"), <<<<"a">>>>)),
     Decl("Nesting", TInterface(<<Field("a", FALSE, TString), Field("b", FALSE, TRef("A"))>>,
                                <<>>)),
     Decl("OmitNesting", TOmit(TRef("Nesting"), <<<<"a">>>>)),
     Decl("OmitOuter", TOmit(TRef("Outer"), <<<<"boolField">>>>)),
     Decl("OmitRecString", TOmit(TRef("RecString"), <<<<"a">>>>)) >>

TestSchema == parseTypes(Declarations).val

\* types handed to the checker that are no declaration of the schema: the
\* string nodes of the formats, and unnamed types short and long in print
UnnamedTypes ==
  { TSpecial("PostalCode"), TSpecial("PhoneNumber"), TSpecial("TrimmedString"),
    TArray(TRef("Interface")),
    TInterface(<<Field("id", FALSE, TNumber), Field("first", FALSE, TString),
                 Field("second", TRUE, TRef("Interface"))>>, <<>>),
    TUnion(<<TRef("Interface"), TRef("And"), TRef("NumberT")>>) }

Types == {TestSchema.types[i].v : i \in 1..Len(TestSchema.types)} \cup UnnamedTypes

(***************************************************************************)
(* The runtime values handed to the checker.                               *)
(***************************************************************************)
KeyPool == <<"kind", "foo", "a", "b", "base", "sub">>
PropertyValues == {StrV(<<"a">>), Num(1)}
ElementValues == {Num(1), StrV(<<"a">>)}

\* the property lists over the keys of KeyPool from the i-th on, at most n long
RECURSIVE PropertyLists(_, _)
PropertyLists(i, n) ==
  IF i > Len(KeyPool) \/ n = 0 THEN {<<>>}
  ELSE PropertyLists(i + 1, n)
         \cup {<<P(KeyPool[i], v)>> \o rest :
                 v \in PropertyValues, rest \in PropertyLists(i + 1, n - 1)}

\* a string of forty characters and more
LongString == <<"abcdefghijklmnopqrstuvwxyzabcdefghijklmnopqrstuvwxyz">>

\* strings that print, in quotes, with 39 and with 40 characters
String37 == <<"abcdefghijklmnopqrstuvwxyzabcdefghijk">>
String38 == <<"abcdefghijklmnopqrstuvwxyzabcdefghijkl">>

Primitives ==
  { Undefined, Null, Bool(TRUE), Bool(FALSE), Num(0), Num(1),
    StrV(<<"a">>), StrV(<<"b">>), StrV(<<"c">>), StrV(<<"sub">>), StrV(<<"base">>),
    StrV(<<"kind">>), StrV(<<"foo">>),
    StrV(<<"x", NL, "y">>), StrV(LongString), StrV(String37), StrV(String38),
    StrV(<<"1", "2", "3", "4", "5">>), StrV(<<" ", "1", "2", "3", "4", "5">>),
    StrV(<<" ">>) }

Nested ==
  { Obj(<<P("boolField", Bool(TRUE))>>),
    Obj(<<P("boolField", Bool(TRUE)), P("optionalField", Bool(FALSE))>>),
    Obj(<<P("boolField", StrV(<<"a">>))>>),
    Obj(<<P("optionalField", Bool(TRUE))>>),
    Obj(<<P("boolField", Bool(TRUE)), P("optionalField", Undefined)>>),
    Obj(<<P("boolField", Undefined)>>),
    Obj(<<P("a", Undefined)>>),
    Obj(<<P("inner", Obj(<<>>))>>),
    Obj(<<P("b", Obj(<<>>))>>),
    Obj(<<P("b", Obj(<<P("a", StrV(<<"a">>))>>))>>),
    Obj(<<P("a", Num(1)), P("b", Obj(<<P("a", Num(1))>>))>>),
    Obj(<<P("inner", Obj(<<P("boolField", Bool(TRUE))>>)),
          P("list", Arr(<<Obj(<<P("boolField", Bool(TRUE))>>), Obj(<<>>)>>))>>),
    Obj(<<P("inner", Obj(<<P("boolField", Bool(TRUE))>>))>>),
    Obj(<<P("list", Arr(<<Obj(<<P("boolField", Bool(TRUE))>>), Obj(<<>>)>>))>>),
    Obj(<<P("list", Arr(<<Obj(<<P("boolField", Bool(TRUE))>>)>>))>>),
    Obj(<<P("boolField", Bool(TRUE)), P("optionalField", StrV(<<"x">>))>>),
    Obj(<<P("boolField", Bool(TRUE)), P("optionalField", StrV(<<"wrong-type">>))>>),
    Obj(<<P("postalCode", StrV(<<"1", "2", "3", "4", "5">>))>>),
    Obj(<<P("postalCode", StrV(<<"a">>))>>),
    Obj(<<P("id", Num(1)), P("first", StrV(<<"a">>)),
          P("second", Obj(<<P("boolField", Num(1))>>))>>),
    Obj(<<P("id", Num(1)), P("first", StrV(LongString)), P("second", Null)>>),
    Arr(<<Obj(<<P("boolField", Bool(TRUE))>>), Obj(<<>>)>>),
    Obj(<<P("a", StrV(<<"x", NL, "y">>)), P("b", Arr(<<Num(1)>>))>>) }

Values ==
  Primitives
    \cup {Obj(ps) : ps \in PropertyLists(1, MaxProps)}
    \cup {Arr(es) : es \in UNION {[1..n -> ElementValues] : n \in 0..MaxLen}}
    \cup Nested

(***************************************************************************)
(* The program: a value and a type are handed to one of the entry points.  *)
(***************************************************************************)
VARIABLES program, position, schema, type, value, pc, result

vars == <<program, position, schema, type, value, pc, result>>

\* the references handed to resolveType beside the node t itself: to t when
\* it is a declaration (a chain when t is an alias), and to a name no
\* declaration has
ReferencesTo(t) ==
  (IF Has(t, "name")
     THEN {[kind |-> "reference-type", referencedTypeName |-> t.name]} ELSE {})
    \cup {TRef("Missing")}

\* parseTypes has run over the declarations of the test suite
Init ==
  /\ program = Declarations
  /\ position = Len(Declarations) + 1
  /\ schema = TestSchema
  /\ type \in Types
  /\ value \in Values
  /\ pc = "start"
  /\ result = Done

\* a checkValueAgainstType that stores the resolved node in the schema
CheckValueAgainstTypeStoring ==
  /\ pc = "start"
  /\ result' = checkValueAgainstType(value, type, schema)
  /\ schema' = IF Has(type, "name") /\ IsRet(resolveType(schema, type))
                 THEN [types |-> TypesSet(schema.types, type.name,
                                          resolveType(schema, type).val)]
                 ELSE schema
  /\ pc' = "checked"
  /\ UNCHANGED <<program, position, type, value>>

\* checkValueAgainstType(value, type, schema)
CheckValueAgainstType ==
  /\ pc = "start"
  /\ result' = checkValueAgainstType(value, type, schema)
  /\ pc' = "checked"
  /\ UNCHANGED <<program, position, schema, type, value>>

\* assert<type.name>(value), emitted for every type of the schema
AssertT ==
  /\ pc = "start"
  /\ Has(type, "name")
  /\ result' = assertT(type.name, value, schema)
  /\ pc' = "asserted"
  /\ UNCHANGED <<program, position, schema, type, value>>

\* assert<Format>(value), emitted for every special type the schema uses
AssertFormat ==
  /\ pc = "start"
  /\ type.kind = "string" /\ Has(type, "specialName")
  /\ type.specialName \in usedSpecialTypes(schema)
  /\ result' = assertFormat(type.specialName, value, schema)
  /\ pc' = "formatted"
  /\ UNCHANGED <<program, position, schema, type, value>>

\* propertiesOfType(type.name)
PropertiesOfType ==
  /\ pc = "start"
  /\ Has(type, "name")
  /\ result' = propertiesOfType(type.name, schema)
  /\ pc' = "properties"
  /\ UNCHANGED <<program, position, schema, type, value>>

\* resolveType(schema, t), for a node of the schema or a reference
ResolveType ==
  /\ pc = "start"
  /\ \E t \in {type} \cup ReferencesTo(type) :
       /\ type' = t
       /\ result' = resolveType(schema, t)
  /\ pc' = "resolved"
  /\ UNCHANGED <<program, position, schema, value>>

Next ==
  \/ CheckValueAgainstType
  \/ AssertT
  \/ AssertFormat
  \/ PropertiesOfType
  \/ ResolveType

Spec == Init /\ [][Next]_vars

(***************************************************************************)
(* The extractor at work: parseTypes visits the annotated declarations of  *)
(* a program one by one, fills in the kinds and checks consistency; the    *)
(* schema it returns is then handed to the checker.                        *)
(***************************************************************************)
MaxDecls == 3

PoolDeclarations ==
  { Decl("A", TInterface(<<Field("a", FALSE, TString)>>, <<>>)),
    Decl("A", TNumber),
    Decl("types", TNumber),
    Decl("Loop", TUnion(<<TRef("Loop"), TNumber>>)),
    Decl("Tree", TInterface(<<Field("next", TRUE, TRef("Tree"))>>, <<>>)),
    Decl("Alias", TRef("Alias")),
    Decl("Elements", TArray(TRef("Missing"))),
    Decl("KeyOfMissing", TKeyof(TRef("Missing"))),
    Decl("Dict", TIndexSignature(TString, TUnion(<<KindA, KindB>>))),
    Decl("Same", TUnion(<<KindA, KindA>>)) }

Programs == UNION {[1..n -> PoolDeclarations] : n \in 0..MaxDecls}

ParsedValues ==
  { Num(1), StrV(<<"a">>), Obj(<<>>), Obj(<<P("kind", StrV(<<"a">>))>>),
    Obj(<<P("next", Obj(<<P("next", Obj(<<>>))>>))>>),
    Obj(<<P("next", Obj(<<P("next", Num(1))>>))>>) }

ParseInit ==
  /\ program \in Programs
  /\ position = 1
  /\ schema = EmptyResult
  /\ type = TUnknown
  /\ value = Undefined
  /\ pc = "visiting"
  /\ result = Done

\* visit(result, ..., node) for the next annotated declaration
Visit ==
  /\ pc = "visiting"
  /\ position <= Len(program)
  /\ IF IsRet(visit(schema, program[position]))
       THEN /\ schema' = visit(schema, program[position]).val
            /\ position' = position + 1
            /\ UNCHANGED <<pc, result>>
       ELSE /\ result' = visit(schema, program[position])
            /\ pc' = "failed"
            /\ UNCHANGED <<schema, position>>
  /\ UNCHANGED <<program, type, value>>

\* the rest of parseTypes once every declaration is visited
FillKindsAndCheckConsistency ==
  /\ pc = "visiting"
  /\ position > Len(program)
  /\ IF IsRet(kindsAndConsistency(schema))
       THEN /\ schema' = kindsAndConsistency(schema).val
            /\ pc' = "parsed"
            /\ UNCHANGED result
       ELSE /\ result' = kindsAndConsistency(schema)
            /\ pc' = "failed"
            /\ UNCHANGED schema
  /\ UNCHANGED <<program, position, type, value>>

\* checkValueAgainstType(v, schema.types[name], schema) on the parsed schema
CheckParsed ==
  /\ pc = "parsed"
  /\ \E i \in 1..Len(schema.types), v \in ParsedValues :
       /\ type' = schema.types[i].v
       /\ value' = v
       /\ result' = checkValueAgainstType(v, schema.types[i].v, schema)
  /\ pc' = "checked"
  /\ UNCHANGED <<program, position, schema>>

ParseNext ==
  \/ Visit
  \/ FillKindsAndCheckConsistency
  \/ CheckParsed

ParseSpec == ParseInit /\ [][ParseNext]_vars

(***************************************************************************)
(* Properties.                                                             *)
(***************************************************************************)
\* checkValueAgainstType(v, t, schema) returns ""
Accepts(v, t) == checkValueAgainstType(v, t, schema) = Ret(<<>>)

SomeMemberAccepts(v, members) == \E i \in 1..Len(members) : Accepts(v, members[i])
EveryMemberAccepts(v, members) == \A i \in 1..Len(members) : Accepts(v, members[i])

\* C1: union exhaustiveness.  A check of a value against a union U (enum-like,
\* with cached kinds, or generic) that returns, returns "" if and only if the
\* check of the value against some member of U returns "".
C1_UnionExhaustive ==
  (pc = "checked" /\ type.kind = "union" /\ IsRet(result))
    => ((result = Ret(<<>>)) <=> SomeMemberAccepts(value, type.unionMembers))

\* C2: intersection.  A value checked against an intersection X yields "" if
\* and only if the check of the value against every member of X yields "".
C2_Intersection ==
  (pc = "checked" /\ type.kind = "intersection")
    => ((result = Ret(<<>>)) <=> EveryMemberAccepts(value, type.intersectionMembers))

\* a value is accepted by an intersection of two members
C2_Witness ==
  /\ pc = "checked" /\ type.kind = "intersection"
  /\ Len(type.intersectionMembers) = 2
  /\ result = Ret(<<>>)

\* C3: Partial<T> accepts the empty object {} for every interface T, also
\* when T inherits non-optional fields through its heritage.
C3_PartialAcceptsEmpty ==
  (/\ pc = "checked" /\ type.kind = "partial"
   /\ IsRet(resolveType(schema, type.elementType))
   /\ resolveType(schema, type.elementType).val.kind = "interface"
   /\ value = Obj(<<>>))
    => result = Ret(<<>>)

\* every property computePropertiesOfType finds in base is omitted
OmitsEveryProperty(t) ==
  LET properties == computePropertiesOfType(schema, t.base) IN
  /\ IsRet(properties)
  /\ \A i \in 1..Len(properties.val) : SeqIncludes(t.omittedFields, properties.val[i])

\* C4: Omit<T, K> with K listing every property of T accepts any object,
\* whatever properties it has or lacks.
C4_OmitAllAcceptsAnyObject ==
  (/\ pc = "checked" /\ type.kind = "omit" /\ OmitsEveryProperty(type)
   /\ value.t = "object")
    => result = Ret(<<>>)

\* the diagnostic of a string that is no key: its first lines
NotAKey(properties, v) ==
  valueToShortString(v, <<"value">>) \o <<" does not conform to ">>
    \o typeToShortString(type, Some(<<"_TYPE_">>)) \o <<"!", NL, NL>>
    \o <<"Expected one of [">> \o Join(MapQuote(properties), <<",">>)
    \o <<"], but got '">> \o v.s \o <<"'", NL>>

\* C5: the strings keyof T accepts are exactly the strings
\* computePropertiesOfType(schema, T) returns; any other string is rejected
\* with a message that lists the properties in the computed order.
C5_KeyofAcceptsComputedProperties ==
  (pc = "checked" /\ type.kind = "keyof" /\ value.t = "string")
    => LET properties == computePropertiesOfType(schema, type.base) IN
       /\ IsRet(properties)
       /\ IF SeqIncludes(properties.val, value.s)
            THEN result = Ret(<<>>)
            ELSE /\ IsRet(result)
                 /\ SubSeq(result.val, 1, Len(NotAKey(properties.val, value)))
                      = NotAKey(properties.val, value)

ExtraKeys == {"kind", "foo", "a", "b", "base", "sub", "optionalField", "extra"}
ExtraValues == {StrV(<<"a">>), Num(1), Bool(TRUE)}

\* v with the further key k
Extended(v, k, x) == Obj(Append(v.props, P(k, x)))

\* C6 as stated: for an interface I and a value v that conforms to I, the
\* value obtained by adding any further key to v conforms to I.
C6_AnyFurtherKey ==
  (/\ pc = "checked" /\ type.kind = "interface" /\ value.t = "object"
   /\ result = Ret(<<>>))
    => \A k \in ExtraKeys, x \in ExtraValues :
         ~In(value, <<k>>) => Accepts(Extended(value, k, x), type)

\* C6, amended: for an interface I and a value v that conforms to I, the
\* value obtained by adding to v a key that is no property of I, own or
\* inherited, conforms to I.
C6_UndeclaredKey ==
  (/\ pc = "checked" /\ type.kind = "interface" /\ value.t = "object"
   /\ result = Ret(<<>>))
    => LET properties == computePropertiesOfType(schema, type) IN
       \A k \in ExtraKeys, x \in ExtraValues :
         (~In(value, <<k>>) /\ IsRet(properties) /\ ~SeqIncludes(properties.val, <<k>>))
           => Accepts(Extended(value, k, x), type)

\* a value conforms to an interface with heritage and has room for a key
\* that the interface does not declare
C6_Witness ==
  /\ pc = "checked" /\ type.kind = "interface" /\ type.heritage # <<>>
  /\ value.t = "object" /\ result = Ret(<<>>)
  /\ ~In(value, <<"extra">>)
  /\ IsRet(computePropertiesOfType(schema, type))
  /\ ~SeqIncludes(computePropertiesOfType(schema, type).val, <<"extra">>)

\* C7: checkValueAgainstType returns a string, and does not throw, for every
\* value and every type of a well-formed schema.  Every type of the model
\* is one: its references are defined, keyof is taken of closed property
\* sets, and Partial of interfaces.
C7_NeverThrows == pc = "checked" => IsRet(result)

\* C8: a diagnostic that checkValueAgainstType returns has a first line that
\* ends with "does not conform to <T-display>!", T-display being the name of
\* the type, else its short printed form or the _TYPE_ placeholder.
C8_FirstLine ==
  (pc = "checked" /\ IsRet(result) /\ result.val # <<>>)
    => EndsWith(Head(Split(result.val)),
                <<" does not conform to ">>
                  \o typeToShortString(type, Some(<<"_TYPE_">>)) \o <<"!">>)

\* C9: the emitted assert<Format> checks its argument against the string
\* node with the format's specialName: it returns the value when that check
\* yields "", and throws otherwise.
C9_AssertFormat ==
  pc = "formatted"
    => IF Accepts(value, [kind |-> "string", specialName |-> type.specialName])
         THEN result = Ret(value)
         ELSE IsThrow(result)

\* C10: the emitted assertT returns its argument unchanged when the checker
\* yields "" for schema.types[T], throws an Error whose message is the
\* diagnostic when the checker yields one, and returns no other value.
C10_AssertT ==
  pc = "asserted"
    => LET error == checkValueAgainstType(value, TypesGet(schema, type.name), schema) IN
       /\ error = Ret(<<>>) => result = Ret(value)
       /\ (IsRet(error) /\ error.val # <<>>) => result = Throw("Error", error.val)
       /\ IsRet(result) => error = Ret(<<>>)

\* assertT has thrown the diagnostic of a value that does not conform
C10_Witness ==
  /\ pc = "asserted" /\ result.st = "Error"
  /\ result.msg = checkValueAgainstType(value, TypesGet(schema, type.name), schema).val

\* C11: propertiesOfType of an omit node terminates and returns the property
\* names of the resolved base, in the base's order, without the names listed
\* in omittedFields.
C11_OmitProperties ==
  (/\ pc = "properties" /\ type.kind = "omit"
   /\ IsRet(computePropertiesOfType(schema, type.base)))
    => result = Ret(Without(computePropertiesOfType(schema, type.base).val,
                            type.omittedFields))

\* C12: on a schema parseTypes returned, cyclic or not, a check of a finite
\* value terminates: it never exhausts the call stack.
C12_Terminates ==
  pc = "checked" => result.st # "RangeError"

\* the names a chain of references visits from name on, through at most fuel
\* further aliases
RECURSIVE ChainNames(_, _)
ChainNames(name, fuel) ==
  {name} \cup
    (IF /\ fuel > 0 /\ InTypes(schema, name)
        /\ TypesGet(schema, name).kind = "reference-type"
       THEN ChainNames(TypesGet(schema, name).referencedTypeName, fuel - 1)
       ELSE {})

Removed(v, k) == Obj(SelectSeq(v.props, LAMBDA p : p.k # k))

\* C14: under Omit<T, K> a key of K is neither required nor validated: the
\* check of an object gives the same verdict with the key absent and with the
\* key present, whatever its value.
C14_OmittedKeysUnchecked ==
  (pc = "checked" /\ type.kind = "omit" /\ value.t = "object")
    => \A i \in 1..Len(type.omittedFields), x \in ExtraValues :
         LET k == type.omittedFields[i] IN
         Accepts(Obj(Append(Removed(value, k).props, [k |-> k, v |-> x])), type)
           <=> Accepts(Removed(value, k), type)

\* t resolves to the unrestricted string type
ResolvesToString(t) ==
  /\ IsRet(resolveType(schema, t))
  /\ resolveType(schema, t).val.kind = "string"
  /\ ~Has(resolveType(schema, t).val, "specialName")

\* C15: a mapped type whose mapFrom resolves to string, directly or through
\* references, is an open dictionary: the check throws nothing, and an object
\* conforms exactly when each of its properties conforms to mapTo.
C15_OpenDictionary ==
  (pc = "checked" /\ type.kind = "mapped" /\ ResolvesToString(type.mapFrom))
    => /\ IsRet(result)
       /\ value.t = "object" =>
            (result = Ret(<<>>)
               <=> \A i \in 1..Len(value.props) :
                     Accepts(value.props[i].v, type.mapTo))

\* the first member attempt of the generic union handling
FirstMemberAttempt ==
  checkValueAgainstTypeHelper(
    value, type.unionMembers[1], schema, <<"value">>,
    typeToShortString(type.unionMembers[1],
                      Some(<<"_TYPE_", "[">> \o ith(1) \o <<" union member]">>)),
    1, Ignoring(<<>>))

\* C16: an exception that is no TypecheckingError reaches the caller of
\* checkValueAgainstType as it was raised: by the resolution of the type, by
\* the first member attempt of a union, by the property computation of a
\* mapped type.
C16_ErrorsPropagate ==
  pc = "checked" =>
    /\ ~IsRet(resolveType(schema, type)) => result = resolveType(schema, type)
    /\ (/\ type.kind = "union" /\ ~isEnum(type).defined /\ ~Has(type, "kinds")
        /\ IsThrow(FirstMemberAttempt))
         => result = FirstMemberAttempt
    /\ (/\ type.kind = "mapped" /\ type.mapFrom.kind # "string"
        /\ typeof(value) = "object"
        /\ IsThrow(computePropertiesOfType(schema, type)))
         => result = computePropertiesOfType(schema, type)

C18_DuplicatesRejected ==
  /\ \A j \in 1..(position - 1), i \in 1..(position - 1) :
       i < j => program[i].k # program[j].k
  /\ pc = "visiting" =>
       \A e \in 1..Len(schema.types) :
         \E i \in 1..(position - 1) :
           /\ program[i].k = schema.types[e].k
           /\ \A h \in 1..(i - 1) : program[h].k # program[i].k
           /\ schema.types[e].v = program[i].v

\* every node under t, the nodes under omit, keyof and index-signature
\* nodes included
RECURSIVE NodesUnder(_)
NodesUnder(t) ==
  {t} \cup
    CASE t.kind \in {"array", "partial"} -> NodesUnder(t.elementType)
      [] t.kind = "mapped" -> NodesUnder(t.mapFrom) \cup NodesUnder(t.mapTo)
      [] t.kind = "union" ->
           UNION {NodesUnder(t.unionMembers[i]) : i \in 1..Len(t.unionMembers)}
      [] t.kind = "intersection" ->
           UNION {NodesUnder(t.intersectionMembers[i]) :
                    i \in 1..Len(t.intersectionMembers)}
      [] t.kind = "interface" ->
           UNION {NodesUnder(t.fields[i].type) : i \in 1..Len(t.fields)}
             \cup UNION {NodesUnder(t.heritage[i]) : i \in 1..Len(t.heritage)}
      [] t.kind \in {"omit", "keyof"} -> NodesUnder(t.base)
      [] t.kind = "index-signature" ->
           NodesUnder(t.keyType) \cup NodesUnder(t.valueType)
      [] OTHER -> {}

\* every node of the schema
SchemaNodes ==
  UNION {NodesUnder(schema.types[i].v) : i \in 1..Len(schema.types)}

\* t is an interface with a non-optional field kind of string-literal type
HasKindLiteral(t) ==
  /\ t.kind = "interface"
  /\ \E i \in 1..Len(t.fields) :
       /\ t.fields[i].name = <<"kind">> /\ ~t.fields[i].optional
       /\ t.fields[i].type.kind = "string-literal"

\* the kind literals an interface t declares
KindLiteralsOf(t) ==
  {t.fields[i].type.value :
     i \in {j \in 1..Len(t.fields) :
              /\ t.fields[j].name = <<"kind">> /\ ~t.fields[j].optional
              /\ t.fields[j].type.kind = "string-literal"}}

\* the kind literals of the members of a union u whose members all resolve
KindLiterals(u) ==
  UNION {KindLiteralsOf(resolveType(schema, u.unionMembers[j]).val) :
           j \in 1..Len(u.unionMembers)}

\* every member of u resolves to an interface with a kind literal
Discriminated(u) ==
  \A j \in 1..Len(u.unionMembers) :
    /\ IsRet(resolveType(schema, u.unionMembers[j]))
    /\ HasKindLiteral(resolveType(schema, u.unionMembers[j]).val)

\* C19: in a schema parseTypes returned, every union node, wherever it is,
\* whose members all resolve to interfaces with a kind literal has kinds set
\* to the distinct kind literals of its members, without duplicates; every
\* other union has no kinds.
C19_KindsEverywhere ==
  pc = "parsed" =>
    \A u \in {t \in SchemaNodes : t.kind = "union"} :
      IF Discriminated(u)
        THEN /\ Has(u, "kinds")
             /\ {u.kinds[i] : i \in 1..Len(u.kinds)} = KindLiterals(u)
             /\ \A i, j \in 1..Len(u.kinds) : i # j => u.kinds[i] # u.kinds[j]
        ELSE ~Has(u, "kinds")

\* C20: a schema parseTypes returned has no dangling reference: every
\* reference-type node of the schema names a declared type.
C20_NoDanglingReference ==
  pc = "parsed" =>
    \A t \in {n \in SchemaNodes : n.kind = "reference-type"} :
      InTypes(schema, t.referencedTypeName)

\* the characters of s as one string
RECURSIVE Flat(_)
Flat(s) ==
  IF s = <<>> THEN ""
  ELSE IF Len(s) = 1 THEN s[1]
  ELSE Flat(SubSeq(s, 1, Len(s) \div 2)) \o Flat(SubSeq(s, Len(s) \div 2 + 1, Len(s)))

InterfaceWithX ==
  Obj(<<P("boolField", Bool(TRUE)), P("optionalField", StrV(<<"x">>))>>)
InterfaceWithWrongType ==
  Obj(<<P("boolField", Bool(TRUE)), P("optionalField", StrV(<<"wrong-type">>))>>)

\* C21 as stated: the check of { boolField: true, optionalField: 'x' }
\* against Interface yields a diagnostic that reports the Javascript type
\* mismatch at value['optionalField'] and ends with the trailer value =
\* followed by the pretty-printed JSON of the value.
C21_TrailerForX ==
  (/\ pc = "checked" /\ type = TypesGet(schema, <<"Interface">>)
   /\ value = InterfaceWithX)
    => /\ IsRet(result)
       /\ Includes(result.val, "Expected Javascript type ")
       /\ Includes(result.val, "optionalField")
       /\ EndsWith(result.val, <<NL, "value = ">> \o objectToJson(value) \o <<NL>>)

\* C21, amended: the check of { boolField: true, optionalField: 'x' } against
\* Interface yields the Javascript type mismatch at value['optionalField']
\* under a header that prints the value, without trailer, the JSON of the
\* value being shorter than 40 characters; with optionalField: 'wrong-type'
\* the header is value alone and the diagnostic ends with the trailer.
C21_DiagnosticForX ==
  (pc = "checked" /\ type = TypesGet(schema, <<"Interface">>))
    => /\ value = InterfaceWithX =>
            /\ IsRet(result)
            /\ Flat(result.val) =
                 "value (aka. <grave>{\"boolField\":true,\"optionalField\":\"x\"}<grave>)"
                   \o " does not conform to Interface!\n\n"
                   \o "Expected Javascript type boolean, but got type string\n"
                   \o "While checking value['optionalField'] (aka. <grave>'x'<grave>)"
                   \o " against type boolean\n"
       /\ value = InterfaceWithWrongType =>
            /\ IsRet(result)
            /\ Flat(result.val) =
                 "value does not conform to Interface!\n\n"
                   \o "Expected Javascript type boolean, but got type string\n"
                   \o "While checking value['optionalField'] (aka. <grave>'wrong-type'<grave>)"
                   \o " against type boolean\n"
                   \o "While checking value against type Interface\n"
                   \o "value = {\n  \"boolField\": true,\n  \"optionalField\": \"wrong-type\"\n}\n"

\* { boolField: true, optionalField: 'x' } was checked against Interface
C21_Witness ==
  /\ pc = "checked" /\ type = TypesGet(schema, <<"Interface">>)
  /\ value = InterfaceWithX /\ IsRet(result) /\ result.val # <<>>

\* the object v has the key k with a value that is not undefined
Present(v, k) ==
  \E i \in 1..Len(v.props) : v.props[i].k = k /\ v.props[i].v.t # "undefined"

\* v[k], for a key v has
ValueAt(v, k) == v.props[CHOOSE i \in 1..Len(v.props) : v.props[i].k = k].v

\* the field f lets the object v pass: present with a conforming value, or
\* optional and absent or undefined
FieldPasses(v, f) ==
  IF Present(v, f.name) THEN Accepts(ValueAt(v, f.name), f.type) ELSE f.optional

BodyOf(d) ==
  LET i == CHOOSE j \in 1..(Len(d) - 2) :
             /\ d[j] = "!" /\ d[j + 1] = NL /\ d[j + 2] = NL
             /\ \A h \in 1..(j - 1) : d[h] # "!"
  IN SubSeq(d, i + 3, Len(d))

StartsWith(s, prefix) ==
  Len(s) >= Len(prefix) /\ SubSeq(s, 1, Len(prefix)) = prefix

\* every member of the union t is a string literal
EnumLike(t) ==
  /\ t.kind = "union"
  /\ \A i \in 1..Len(t.unionMembers) : t.unionMembers[i].kind = "string-literal"

\* the literals of an enum-like union, in schema order
Literals(t) == [i \in 1..Len(t.unionMembers) |-> t.unionMembers[i].value]

\* C23: an enum-like union accepts exactly the strings that are one of its
\* literals; another value fails with Expected Javascript type string, but
\* got type <typeof value>, another string with Expected one of [...], but
\* got '<value>', the literals listed in schema order.
C23_Enum ==
  (pc = "checked" /\ EnumLike(type))
    => IF value.t = "string" /\ SeqIncludes(Literals(type), value.s)
         THEN result = Ret(<<>>)
         ELSE /\ IsRet(result) /\ result.val # <<>>
              /\ StartsWith(
                   BodyOf(result.val),
                   IF value.t # "string"
                     THEN <<"Expected Javascript type ", "string", ", but got type ",
                            typeof(value)>>
                     ELSE <<"Expected one of [">>
                            \o Join(MapQuote(Literals(type)), <<", ">>)
                            \o <<"], but got '">> \o value.s \o <<"'">>)

\* a string that is no literal of the enum was checked and rejected
C23_Witness ==
  /\ pc = "checked" /\ EnumLike(type) /\ Len(type.unionMembers) > 1
  /\ value.t = "string" /\ ~SeqIncludes(Literals(type), value.s)
  /\ IsRet(result) /\ result.val # <<>>

\* the interface Partial<...> is taken of, for a partial node t
PartialOf(t) == resolveType(schema, t.elementType).val

\* t resolves to an interface or to an array
NestedType(t) ==
  /\ IsRet(resolveType(schema, t))
  /\ resolveType(schema, t).val.kind \in {"interface", "array"}

\* C24: partial mode is shallow.  Under Partial<I> an object conforms only
\* if every field of I that is present and whose type is an interface or an
\* array conforms to that type as checked on its own, strictly; when I has
\* no heritage, an object conforms exactly when each field that is present
\* conforms to its type.
C24_PartialShallow ==
  (/\ pc = "checked" /\ type.kind = "partial" /\ value.t = "object"
   /\ IsRet(resolveType(schema, type.elementType))
   /\ PartialOf(type).kind = "interface" /\ IsRet(result))
    => /\ result = Ret(<<>>) =>
            \A i \in 1..Len(PartialOf(type).fields) :
              LET f == PartialOf(type).fields[i] IN
              (Present(value, f.name) /\ NestedType(f.type))
                => Accepts(ValueAt(value, f.name), f.type)
       /\ PartialOf(type).heritage = <<>> =>
            (result = Ret(<<>>)
               <=> \A i \in 1..Len(PartialOf(type).fields) :
                     LET f == PartialOf(type).fields[i] IN
                     Present(value, f.name) => Accepts(ValueAt(value, f.name), f.type))

\* under Partial<I> a field of interface type is present, its value lacks a
\* non-optional field, and the check failed
C24_Witness ==
  /\ pc = "checked" /\ type.kind = "partial" /\ value.t = "object"
  /\ IsRet(resolveType(schema, type.elementType))
  /\ PartialOf(type).kind = "interface"
  /\ \E i \in 1..Len(PartialOf(type).fields) :
       LET f == PartialOf(type).fields[i] IN
       /\ Present(value, f.name) /\ NestedType(f.type)
       /\ resolveType(schema, f.type).val.kind = "interface"
       /\ ValueAt(value, f.name) = Obj(<<>>)
  /\ IsRet(result) /\ result.val # <<>>

\* the positions of the members of the union t that resolve to an interface
\* with a field kind: '<k>'
KindMembers(t, k) ==
  {i \in 1..Len(t.unionMembers) :
     /\ IsRet(resolveType(schema, t.unionMembers[i]))
     /\ resolveType(schema, t.unionMembers[i]).val.kind = "interface"
     /\ \E j \in 1..Len(resolveType(schema, t.unionMembers[i]).val.fields) :
          LET field == resolveType(schema, t.unionMembers[i]).val.fields[j] IN
          /\ field.name = <<"kind">>
          /\ field.type.kind = "string-literal"
          /\ field.type.value = k}

\* v is an object whose kind is a string among the cached kinds of t
HasKnownKind(v, t) ==
  /\ v.t = "object" /\ Present(v, <<"kind">>)
  /\ ValueAt(v, <<"kind">>).t = "string"
  /\ SeqIncludes(t.kinds, ValueAt(v, <<"kind">>).s)

\* the diagnostic d lists the union members tried
ListsMembers(d) == \E i \in 1..Len(d) : d[i] = "No union member matches:"

\* C25: a union with cached kinds.  A value that is no object, has no defined
\* kind, has a kind that is no string or has a kind outside the cached kinds
\* fails, and no member is tried.  When value.kind is among the kinds, a
\* member whose kind literal equals value.kind decides: the union accepts if
\* and only if that member accepts, and a failure is never a list of the
\* members tried.
C25_KindMemberDecides ==
  (/\ pc = "checked" /\ type.kind = "union" /\ Has(type, "kinds")
   /\ ~isEnum(type).defined /\ IsRet(result))
    => /\ ~ListsMembers(result.val)
       /\ ~HasKnownKind(value, type) => result.val # <<>>
       /\ HasKnownKind(value, type) =>
            \A i \in KindMembers(type, ValueAt(value, <<"kind">>).s) :
              (result = Ret(<<>>)) <=> Accepts(value, type.unionMembers[i])

\* the same, for the first member whose kind literal equals value.kind
FirstKindMemberDecides ==
  (/\ pc = "checked" /\ type.kind = "union" /\ Has(type, "kinds")
   /\ ~isEnum(type).defined /\ IsRet(result))
    => /\ ~ListsMembers(result.val)
       /\ ~HasKnownKind(value, type) => result.val # <<>>
       /\ HasKnownKind(value, type) =>
            \A i \in KindMembers(type, ValueAt(value, <<"kind">>).s) :
              (\A j \in KindMembers(type, ValueAt(value, <<"kind">>).s) : i <= j)
                => ((result = Ret(<<>>)) <=> Accepts(value, type.unionMembers[i]))

\* the value as a diagnostic prints it: JSON for an object, quoted for a
\* string, its textual form otherwise
ShortForm(v) ==
  IF typeof(v) = "object" THEN JSONstringify(v)
  ELSE IF typeof(v) = "string" THEN Quote(v.s)
  ELSE String(v)

PrintsLong(v) == StrLen(ShortForm(v)) >= 40

\* the header of a diagnostic for v, up to the type
HeaderFor(v) ==
  IF PrintsLong(v) THEN <<"value">>
  ELSE <<"value", " (aka. ", Grave>> \o ShortForm(v) \o <<Grave, ")">>

\* the While-checking line of the outermost frame, which names the type t
\* resolves to
OutermostLine(v, t) ==
  <<"While checking ">> \o HeaderFor(v) \o <<" against type ">>
    \o typeToShortString(resolveType(schema, t).val, Some(<<"_TYPE_">>))

\* the message of the failure the checker met on v and t, outermost line last
FailureOf(v, t) ==
  checkValueAgainstTypeHelper(v, t, schema, <<"value">>, <<"_TYPE_">>, 0, NoOptions).msg

\* d is front, followed by the _TYPE_ trailer or by nothing
FrontOf(d, front) ==
  /\ StartsWith(d, front)
  /\ \/ d = front
     \/ StartsWith(SubSeq(d, Len(front) + 1, Len(d)), <<NL, "_TYPE_ = ">>)

\* the diagnostic d has the shape C26 gives it for v and t
Shaped(d, v, t) ==
  /\ EndsWith(FailureOf(v, t), <<NL>> \o OutermostLine(v, t))
  /\ IF PrintsLong(v)
       THEN FrontOf(d, <<"value", " does not conform to ">>
                         \o typeToShortString(t, Some(<<"_TYPE_">>))
                         \o <<"!", NL, NL>> \o FailureOf(v, t)
                         \o <<NL, "value = ">> \o objectToJson(v) \o <<NL>>)
       ELSE /\ FrontOf(d, HeaderFor(v) \o <<" does not conform to ">>
                            \o typeToShortString(t, Some(<<"_TYPE_">>))
                            \o <<"!", NL, NL>>
                            \o SubSeq(FailureOf(v, t), 1,
                                      Len(FailureOf(v, t))
                                        - Len(OutermostLine(v, t)) - 1)
                            \o <<NL>>)
            /\ ~Includes(d, "value = ")

\* C26: in every diagnostic returned, the header is value alone exactly when
\* the value prints with 40 characters or more; then the While-checking line
\* of the outermost frame is kept and the trailer value = <pretty JSON>
\* follows it; otherwise the header prints the value, the While-checking
\* line of the outermost frame is dropped and there is no value = trailer.
C26_HeaderAndTrailer ==
  (pc = "checked" /\ IsRet(result) /\ result.val # <<>>)
    => Shaped(result.val, value, type)

\* the same, for the values that print on one line
ShapedOnOneLine ==
  (pc = "checked" /\ IsRet(result) /\ result.val # <<>>
   /\ (PrintsLong(value) \/ ~Includes(ShortForm(value), NL)))
    => Shaped(result.val, value, type)

\* the diagnostic d holds the text part
Reports(d, part) ==
  \E k \in 1..(Len(d) - Len(part) + 1) : SubSeq(d, k, k + Len(part) - 1) = part

ElementPath(i) == <<"value", "[">> \o NumberToString(i - 1) \o <<"]">>

\* the name a While-checking line gives the heritage reference or
\* intersection member m
MemberName(m) ==
  typeToShortString(resolveType(schema, m).val, Some(typeToString(m, TRUE)))

\* d describes the failure of the i-th element and of no other element
FirstElement(d, v, t, i) ==
  /\ ~Accepts(v.elems[i], t.elementType)
  /\ \A j \in 1..(i - 1) : Accepts(v.elems[j], t.elementType)
  /\ Reports(d, <<"While checking ">> \o ElementPath(i))
  /\ \A j \in 1..Len(v.elems) : j # i => ~Reports(d, ElementPath(j))

\* d describes the failure of the i-th of fields and nothing of the fields
\* after it or of the heritage
FirstField(d, v, t, i) ==
  /\ ~FieldPasses(v, t.fields[i])
  /\ \A j \in 1..(i - 1) : FieldPasses(v, t.fields[j])
  /\ IF Present(v, t.fields[i].name)
       THEN Reports(d, <<"While checking ">> \o KeyPath(<<"value">>, t.fields[i].name))
       ELSE Reports(d, MissingField(t.fields[i].name).msg)
  /\ \A j \in (i + 1)..Len(t.fields) :
       /\ ~Reports(d, KeyPath(<<"value">>, t.fields[j].name))
       /\ ~Reports(d, MissingField(t.fields[j].name).msg)
  /\ \A h \in 1..Len(t.heritage) :
       ~Reports(d, <<" against type ">> \o MemberName(t.heritage[h]))

\* d describes the failure of the i-th of members and of no member after it
FirstMember(d, v, members, i) ==
  /\ ~Accepts(v, members[i])
  /\ \A j \in 1..(i - 1) : Accepts(v, members[j])
  /\ Reports(d, <<" against type ">> \o MemberName(members[i]))
  /\ \A j \in (i + 1)..Len(members) :
       ~Reports(d, <<" against type ">> \o MemberName(members[j]))

\* C27: the checker is fail-fast in traversal order.  A diagnostic for an
\* array describes the failing element of least index and no other element;
\* a diagnostic for an interface describes the first own field, in
\* declaration order, that fails, and nothing after it, or, the own fields
\* passing, the first heritage reference that fails and none after it; a
\* diagnostic for an intersection describes the first member that fails and
\* none after it.
C27_FailFast ==
  (/\ pc = "checked" /\ IsRet(result) /\ result.val # <<>>
   /\ IsRet(resolveType(schema, type)))
    => LET t == resolveType(schema, type).val IN
       /\ (t.kind = "array" /\ value.t = "array")
            => \E i \in 1..Len(value.elems) : FirstElement(result.val, value, t, i)
       /\ (t.kind = "interface" /\ value.t = "object")
            => \/ \E i \in 1..Len(t.fields) : FirstField(result.val, value, t, i)
               \/ /\ \A i \in 1..Len(t.fields) : FieldPasses(value, t.fields[i])
                  /\ \E h \in 1..Len(t.heritage) :
                       FirstMember(result.val, value, t.heritage, h)
       /\ (t.kind = "intersection" /\ value.t = "object")
            => \E m \in 1..Len(t.intersectionMembers) :
                 FirstMember(result.val, value, t.intersectionMembers, m)

\* an array of two elements that both fail was checked
C27_Witness ==
  /\ pc = "checked" /\ IsRet(result) /\ result.val # <<>>
  /\ IsRet(resolveType(schema, type))
  /\ resolveType(schema, type).val.kind = "array" /\ value.t = "array"
  /\ Len(value.elems) = 2
  /\ ~Accepts(value.elems[1], resolveType(schema, type).val.elementType)
  /\ ~Accepts(value.elems[2], resolveType(schema, type).val.elementType)

\* an object failed an interface at the second of its heritage references
FailsAtSecondHeritage ==
  /\ pc = "checked" /\ IsRet(result) /\ result.val # <<>>
  /\ IsRet(resolveType(schema, type))
  /\ resolveType(schema, type).val.kind = "interface" /\ value.t = "object"
  /\ Len(resolveType(schema, type).val.heritage) = 2
  /\ FirstMember(result.val, value, resolveType(schema, type).val.heritage, 2)

\* the string s, as a whole, is of the grammar of the format
WholeStringIs(format, s) ==
  CASE format = <<"PhoneNumber">> ->
         MatchesPattern(s, <<"+", "1", "#", "#", "#", "#", "#", "#", "#", "#", "#", "#">>)
    [] format = <<"SocialSecurityNumber">> ->
         MatchesPattern(s, <<"#", "#", "#", "-", "#", "#", "-", "#", "#", "#", "#">>)
    [] format = <<"PostalCode">> ->
         \/ MatchesPattern(s, <<"#", "#", "#", "#", "#">>)
         \/ MatchesPattern(s, <<"#", "#", "#", "#", "#", "-", "#", "#", "#", "#">>)

\* C28: a string node of the format PhoneNumber, SocialSecurityNumber or
\* PostalCode accepts a string only if the whole string, leading and
\* trailing whitespace included, is of the grammar of the format.
C28_WholeStringMatches ==
  (/\ pc = "checked" /\ type.kind = "string" /\ Has(type, "specialName")
   /\ type.specialName \in {<<"PhoneNumber">>, <<"SocialSecurityNumber">>, <<"PostalCode">>}
   /\ value.t = "string" /\ result = Ret(<<>>))
    => WholeStringIs(type.specialName, value.s)

\* the string literals for the names of properties that are not among ignored
RECURSIVE LiteralsApart(_, _)
LiteralsApart(properties, ignored) ==
  IF properties = <<>> THEN <<>>
  ELSE (IF SeqIncludes(ignored, Head(properties)) THEN <<>>
        ELSE <<[kind |-> "string-literal", value |-> Head(properties)]>>)
         \o LiteralsApart(Tail(properties), ignored)

\* the type t without the fields named in ignored, taken from the interface
\* and mapped frames that omit, partial, intersection, union-member and
\* heritage steps reach from t on the same value; the types of fields,
\* elements and dictionary properties stay as they are
RECURSIVE Strip(_, _)
RECURSIVE StripAll(_, _)
StripAll(ts, ignored) ==
  IF ts = <<>> THEN <<>> ELSE <<Strip(Head(ts), ignored)>> \o StripAll(Tail(ts), ignored)

Strip(t, ignored) ==
  LET r == resolveType(schema, t).val IN
  CASE r.kind = "interface" ->
         [r EXCEPT !.fields = SelectSeq(@, LAMBDA f : ~SeqIncludes(ignored, f.name)),
                   !.heritage = StripAll(@, ignored)]
    [] r.kind = "intersection" ->
         [r EXCEPT !.intersectionMembers = StripAll(@, ignored)]
    [] r.kind = "union" -> [r EXCEPT !.unionMembers = StripAll(@, ignored)]
    [] r.kind = "partial" -> [r EXCEPT !.elementType = Strip(@, ignored)]
    [] r.kind = "omit" -> Strip(r.base, ignored \o r.omittedFields)
    [] r.kind = "mapped" ->
         [r EXCEPT !.mapFrom =
            [kind |-> "union",
             unionMembers |->
               LiteralsApart(computePropertiesOfType(schema, r).val, ignored)]]
    [] OTHER -> r

\* the frames reached from t on the same value are interface frames, mapped
\* frames over a fixed set of keys, frames of primitive types, and the steps
\* between them; a union with cached kinds and an index signature, which
\* read keys of the value themselves, are not among them
RECURSIVE Strippable(_)
Strippable(t) ==
  /\ IsRet(resolveType(schema, t))
  /\ LET r == resolveType(schema, t).val IN
     CASE r.kind = "interface" ->
            \A i \in 1..Len(r.heritage) : Strippable(r.heritage[i])
       [] r.kind = "intersection" ->
            \A i \in 1..Len(r.intersectionMembers) : Strippable(r.intersectionMembers[i])
       [] r.kind = "union" ->
            /\ ~Has(r, "kinds")
            /\ \A i \in 1..Len(r.unionMembers) : Strippable(r.unionMembers[i])
       [] r.kind = "partial" -> Strippable(r.elementType)
       [] r.kind = "omit" -> Strippable(r.base)
       [] r.kind = "mapped" ->
            /\ r.mapFrom.kind # "string"
            /\ IsRet(computePropertiesOfType(schema, r))
       [] r.kind = "index-signature" -> FALSE
       [] OTHER -> TRUE

\* v without the keys named in ignored
Kept(v, ignored) == Obj(SelectSeq(v.props, LAMBDA p : ~SeqIncludes(ignored, p.k)))

\* C29: the ignored fields add up along a descent on one value and never
\* reach a sub-value.  A check against Omit<T, K> gives the verdict of the
\* check against T with the fields of K, and of every omit between, taken
\* out of the interface and mapped frames reached on the same value, the
\* types of field values, array elements and dictionary properties being
\* left as they are; over an open dictionary it gives the verdict of the
\* dictionary for the value without the keys of K.
C29_IgnoredFields ==
  (pc = "checked" /\ type.kind = "omit" /\ IsRet(result))
    => /\ Strippable(type.base)
            => ((result = Ret(<<>>))
                  <=> Accepts(value, Strip(type.base, type.omittedFields)))
       /\ (/\ IsRet(resolveType(schema, type.base))
           /\ resolveType(schema, type.base).val.kind = "mapped"
           /\ resolveType(schema, type.base).val.mapFrom.kind = "string"
           /\ value.t = "object")
            => ((result = Ret(<<>>))
                  <=> Accepts(Kept(value, type.omittedFields), type.base))

\* Omit<T, K> was checked on an object that has a nested object without a
\* key of K which the nested type requires, and the check failed
C29_Witness ==
  /\ pc = "checked" /\ type.kind = "omit" /\ IsRet(result) /\ result.val # <<>>
  /\ Strippable(type.base)
  /\ value.t = "object"
  /\ \E i \in 1..Len(value.props) :
       /\ value.props[i].v = Obj(<<>>)
       /\ Reports(result.val,
                  MissingField(type.omittedFields[1]).msg
                    \o <<NL, "While checking ">> \o KeyPath(<<"value">>, value.props[i].k))

\* a check against an omit of an omit accepted an object that lacks the
\* fields of both
OmitOfOmitAccepts ==
  /\ pc = "checked" /\ type.kind = "omit" /\ result = Ret(<<>>)
  /\ type.base = [kind |-> "reference-type", referencedTypeName |-> <<"OmitTypeNoSub">>]
  /\ value = Obj(<<>>)

\* C30: null never conforms to an interface type: the check of null against
\* a type that resolves to an interface, whatever its fields, returns a
\* diagnostic that is not empty.
C30_NullIsNoInterface ==
  (/\ pc = "checked" /\ value = Null
   /\ IsRet(resolveType(schema, type))
   /\ resolveType(schema, type).val.kind = "interface")
    => (IsRet(result) /\ result.val # <<>>)
====
